---- MODULE Spec2Model ----
(***************************************************************************)
(* Session store, token codec, HTTP transport adapter, session monitor    *)
(* and request cache of the license dashboard, as a state machine.        *)
(*                                                                         *)
(* Time is in milliseconds (Date.now()).  Strings of the program are TLA+  *)
(* strings; JavaScript null is Null for strings and NoExpiry for the       *)
(* cached expiry instant.                                                  *)
(***************************************************************************)
EXTENDS Integers, Sequences, FiniteSets, TLC

VARIABLES
    auth,        \* state.auth of the Redux store
    storage,     \* localStorage: the 'token' and 'user' items
    now,         \* Date.now()
    path,        \* window.location.pathname
    navPending,  \* a document navigation to /login was assigned, not yet committed
    inflight,    \* requests sent and not yet answered, with their pending handlers
    monitor,     \* useSessionExpiry: captured closure, interval, warning latch
    last,        \* the operation that produced this state, with its inputs
    expirySetAt, \* Date.now() when auth.tokenExpiry was last set (history)
    navAtLogin,  \* who issued a navigation to the login path while already there (history)
    warnings,    \* expiry warnings shown since the page was loaded or auth.token last changed (history)
    codec,       \* the token codec applied to one token at one instant
    cache,       \* the request cache of baseApi with its subscribers and the server
    due,         \* Date.now() at which the monitor's interval fires next
    licenseForm, \* LicenseForm: the phone field and the state of its verification
    paymentPage, \* PaymentCreatePage: the license key field and the looked-up license
    licenseList  \* LicenseListPage: filters, page index and the search debounce

\* The state of the components that one specification at a time puts on screen
local == <<due, licenseForm, paymentPage, licenseList>>

vars == <<auth, storage, now, path, navPending, inflight, monitor, last,
          expirySetAt, navAtLogin, warnings, codec, cache, local>>

----------------------------------------------------------------------------
(* Bounds *)

MaxTicks == 2
MaxInflight == 2
MaxWarnings == 2

(* Program constants *)

CLOCK_SKEW_BUFFER_MS == 5000
TOKEN_EXPIRY_BUFFER_MS == 5000
SECONDS_TO_MS == 1000
WARNING_THRESHOLD_MINUTES == 5
CHECK_INTERVAL == 30000

TickMs == CLOCK_SKEW_BUFFER_MS
MaxNow == MaxTicks * TickMs

Null == "null"
NoExpiry == 0 - 1

LOGIN_PATH == "/login"
DashboardPath == "/"
Paths == {LOGIN_PATH, DashboardPath}

----------------------------------------------------------------------------
(* Token codec (jwtUtils) *)

\* The tokens the server or the storage may hold: the number of dot-separated
\* parts, what the middle part decodes to, and the exp claim (seconds).
TokenSet == {"tE10", "tE305", "tBadJson"}

\* Every token string the codec is applied to: besides the above, a claim set
\* without exp, exp = 0, the JSON text null, a middle part that atob or
\* JSON.parse rejects, an empty middle part, no separator at all, and a
\* header and a claim set with no signature part
CodecTokens ==
    TokenSet \cup {"tNoExp", "tExp0", "tJsonNull", "tBadB64", "tEmptyMiddle",
                   "tNoDots", "tTwoParts"}

TokenShape(t) ==
    CASE t = "tE5"          -> [parts |-> 3, middle |-> "json", hasExp |-> TRUE,  exp |-> 5]
      [] t = "tE10"         -> [parts |-> 3, middle |-> "json", hasExp |-> TRUE,  exp |-> 10]
      [] t = "tE305"        -> [parts |-> 3, middle |-> "json", hasExp |-> TRUE,  exp |-> 305]
      [] t = "tNoExp"       -> [parts |-> 3, middle |-> "json", hasExp |-> FALSE, exp |-> 0]
      [] t = "tExp0"        -> [parts |-> 3, middle |-> "json", hasExp |-> TRUE,  exp |-> 0]
      [] t = "tJsonNull"    -> [parts |-> 3, middle |-> "jsonnull", hasExp |-> FALSE, exp |-> 0]
      [] t = "tBadJson"     -> [parts |-> 3, middle |-> "badjson", hasExp |-> FALSE, exp |-> 0]
      [] t = "tBadB64"      -> [parts |-> 3, middle |-> "badb64", hasExp |-> FALSE, exp |-> 0]
      [] t = "tEmptyMiddle" -> [parts |-> 3, middle |-> "empty", hasExp |-> FALSE, exp |-> 0]
      [] t = "tTwoParts"    -> [parts |-> 2, middle |-> "json", hasExp |-> TRUE,  exp |-> 10]
      [] OTHER              -> [parts |-> 1, middle |-> "empty", hasExp |-> FALSE, exp |-> 0]

NullPayload == [ok |-> FALSE, hasExp |-> FALSE, exp |-> 0]

\* decodeJWT: null when there are fewer than two parts, the middle part is
\* empty, or atob / decodeURIComponent / JSON.parse throws (caught).
decodeJWT(t) ==
    LET s == TokenShape(t) IN
    IF s.parts < 2 \/ s.middle = "empty" THEN NullPayload
    ELSE IF s.middle # "json" THEN NullPayload
    ELSE [ok |-> TRUE, hasExp |-> s.hasExp, exp |-> s.exp]

\* !payload || !payload.exp : a missing exp and exp = 0 are both falsy
NoExpClaim(p) == ~p.ok \/ ~p.hasExp \/ p.exp = 0

\* Mutant: the token expires only after the buffered instant
isTokenExpiredStrictlyAfter(t, time) ==
    IF t = Null THEN TRUE
    ELSE LET payload == decodeJWT(t) IN
         IF NoExpClaim(payload) THEN TRUE
         ELSE time > payload.exp * SECONDS_TO_MS - CLOCK_SKEW_BUFFER_MS

isTokenExpired(t, time) ==
    IF t = Null THEN TRUE
    ELSE LET payload == decodeJWT(t) IN
         IF NoExpClaim(payload) THEN TRUE
         ELSE time >= payload.exp * SECONDS_TO_MS - CLOCK_SKEW_BUFFER_MS

getTokenExpirationTime(t) ==
    IF t = Null THEN NoExpiry
    ELSE LET payload == decodeJWT(t) IN
         IF NoExpClaim(payload) THEN NoExpiry
         ELSE payload.exp * SECONDS_TO_MS

getTokenTimeRemaining(t, time) ==
    IF t = Null THEN NoExpiry
    ELSE LET e == getTokenExpirationTime(t) IN
         IF e = NoExpiry THEN NoExpiry
         ELSE IF e - time > 0 THEN e - time ELSE 0

isTokenExpiringSoon(t, minutes, time) ==
    IF t = Null THEN TRUE
    ELSE LET r == getTokenTimeRemaining(t, time) IN
         IF r = NoExpiry THEN TRUE
         ELSE r > 0 /\ r <= minutes * 60 * 1000

\* Date.prototype.toISOString and new Date(iso).getTime(): an ISO-8601 string
\* carries the instant with millisecond precision, so the instant itself
\* stands for the string.
toISOString(ms) == ms
DateGetTime(iso) == iso

----------------------------------------------------------------------------
(* Durable storage and the auth slice *)

UserSet == {"u1"}

\* localStorage item 'user': absent, JSON.stringify(user), or text that
\* JSON.parse rejects
AbsentItem == [kind |-> "absent", val |-> Null]
GarbageItem == [kind |-> "garbage", val |-> Null]
JSONstringify(u) == [kind |-> "json", val |-> u]
JSONparseThrows(item) == item.kind # "json"
JSONparse(item) == item.val

StoredUsers == {AbsentItem, GarbageItem} \cup {JSONstringify(u) : u \in UserSet}

EmptyStorage == [token |-> Null, user |-> AbsentItem]

\* What a previous run of the application, or an edit of the user item, can
\* have left in the storage: nothing, or a token with any user item
StorageContents ==
    {EmptyStorage} \cup [token : TokenSet, user : StoredUsers]

LoggedOut ==
    [token |-> Null, user |-> Null, isAuthenticated |-> FALSE, tokenExpiry |-> NoExpiry]

\* Mutant: a user item that JSON.parse rejects fails the reconstruction, which
\* falls back to the logged-out state
getInitialAuthStateParseFatal(store, time) ==
    LET token == store.token
        isAuthenticated == IF token # Null THEN ~isTokenExpired(token, time) ELSE FALSE
        expiry == getTokenExpirationTime(token)
    IN IF store.user.kind # "absent" /\ JSONparseThrows(store.user) THEN LoggedOut
       ELSE [token |-> token,
             user |-> IF store.user.kind = "absent" THEN Null ELSE JSONparse(store.user),
             isAuthenticated |-> isAuthenticated,
             tokenExpiry |-> IF token # Null /\ isAuthenticated /\ expiry # NoExpiry
                                /\ expiry > time
                             THEN toISOString(expiry) ELSE NoExpiry]

getInitialAuthState(store, time) ==
    LET token == store.token
        user == IF store.user.kind = "absent" THEN Null
                ELSE IF JSONparseThrows(store.user) THEN Null
                ELSE JSONparse(store.user)
        isAuthenticated == IF token # Null THEN ~isTokenExpired(token, time) ELSE FALSE
        expiry == getTokenExpirationTime(token)
        tokenExpiry == IF token # Null /\ isAuthenticated /\ expiry # NoExpiry /\ expiry > time
                       THEN toISOString(expiry) ELSE NoExpiry
    IN [token |-> token, user |-> user, isAuthenticated |-> isAuthenticated,
        tokenExpiry |-> tokenExpiry]

\* setCredentials reducer.  fail names the localStorage.setItem call that
\* throws ("none", "token" or "user"); an exception leaves the reducer before
\* the draft is committed, so the slice keeps its previous state.
setCredentialsThrows(fail) == fail # "none"

setCredentialsState(state, token, user, fail) ==
    IF setCredentialsThrows(fail) THEN state
    ELSE LET expiry == getTokenExpirationTime(token) IN
         [token |-> token, user |-> user, isAuthenticated |-> TRUE,
          tokenExpiry |-> IF expiry # NoExpiry THEN toISOString(expiry) ELSE NoExpiry]

setCredentialsStorage(store, token, user, fail) ==
    CASE fail = "none"  -> [token |-> token, user |-> JSONstringify(user)]
      [] fail = "token" -> store
      [] fail = "user"  -> [store EXCEPT !.token = token]

\* The user the login response carries has no phone number; the profile that
\* getUserInfo returns may have one
UserInfoSet == {"u1", "u1p"}
phoneOf(u) == IF u = "u1p" THEN "phone" ELSE ""

\* Mutant: the reducer rebuilds the slice around the user and loses the
\* cached expiry
updateUserStateDropsExpiry(state, info) ==
    [state EXCEPT !.user = info, !.tokenExpiry = NoExpiry]

\* updateUser reducer: the identity fields of the store are overwritten
updateUserState(state, info) ==
    [state EXCEPT !.user = info]

\* Mutant: the reducer forgets to clear the cached expiry
logoutStateKeepsExpiry(state) ==
    [state EXCEPT !.token = Null, !.user = Null, !.isAuthenticated = FALSE]

\* logout reducer
logoutState(state) ==
    [token |-> Null, user |-> Null, isAuthenticated |-> FALSE, tokenExpiry |-> NoExpiry]

logoutStorage(store) == [token |-> Null, user |-> AbsentItem]

----------------------------------------------------------------------------
(* The part of the program state that ending a session touches, as one      *)
(* record, so that the handlers below compose as the code calls them.       *)

World ==
    [auth |-> auth, storage |-> storage, path |-> path, navPending |-> navPending,
     expirySetAt |-> expirySetAt, navAtLogin |-> navAtLogin, warnings |-> warnings]

Commit(w) ==
    /\ auth' = w.auth
    /\ storage' = w.storage
    /\ path' = w.path
    /\ navPending' = w.navPending
    /\ expirySetAt' = w.expirySetAt
    /\ navAtLogin' = w.navAtLogin
    /\ warnings' = w.warnings

\* The count of warnings restarts when the token of the store changes
warningsAfter(count, oldToken, newToken) ==
    IF newToken # oldToken THEN 0 ELSE count

\* store.dispatch(logout())
dispatchLogout(w) ==
    [w EXCEPT !.auth = logoutState(@), !.storage = logoutStorage(@),
              !.expirySetAt = NoExpiry,
              !.warnings = warningsAfter(@, w.auth.token, Null)]

\* store.dispatch(setCredentials({token, user})) at Date.now() = time
dispatchSetCredentials(w, token, user, fail, time) ==
    LET st == setCredentialsState(w.auth, token, user, fail) IN
    [w EXCEPT !.auth = st,
              !.storage = setCredentialsStorage(@, token, user, fail),
              !.expirySetAt = IF setCredentialsThrows(fail) THEN @
                              ELSE IF st.tokenExpiry # NoExpiry THEN time ELSE NoExpiry,
              !.warnings = warningsAfter(@, w.auth.token, st.token)]

\* window.location.pathname = '/login' (or .href = ...): starts a document
\* navigation; the location changes when the navigation commits.
assignLocation(w, by) ==
    [w EXCEPT !.navPending = TRUE,
              !.navAtLogin = IF w.path = LOGIN_PATH THEN @ \cup {by} ELSE @]

\* react-router navigate(to): the location changes at once, no reload
routerNavigate(w, to, by) ==
    [w EXCEPT !.path = to,
              !.navAtLogin = IF to = LOGIN_PATH /\ w.path = LOGIN_PATH
                             THEN @ \cup {by} ELSE @]

\* Mutant: the redirect is not guarded
notAtLoginUnguarded(p) == TRUE

\* The guard of the redirect in handleSessionExpiry and checkTokenExpiry
notAtLogin(p) == p # LOGIN_PATH

handleSessionExpiry(w, by) ==
    LET w1 == dispatchLogout(w) IN
    IF notAtLogin(w1.path) THEN assignLocation(w1, by) ELSE w1

----------------------------------------------------------------------------
(* HTTP transport adapter *)

\* Endpoint names, as sequences of characters
EpLogin == <<"l", "o", "g", "i", "n">>
EpLogout == <<"l", "o", "g", "o", "u", "t">>
EpGetLicenses == <<"g", "e", "t", "L", "i", "c", "e", "n", "s", "e", "s">>
EpGetUserInfo == <<"g", "e", "t", "U", "s", "e", "r", "I", "n", "f", "o">>
NoEp == <<>>

LowerChar(c) ==
    CASE c = "L" -> "l" [] c = "U" -> "u" [] c = "I" -> "i" [] OTHER -> c

toLowerCase(s) == [i \in 1..Len(s) |-> LowerChar(s[i])]

includes(s, sub) ==
    \E i \in 1..(Len(s) - Len(sub) + 1) : SubSeq(s, i, i + Len(sub) - 1) = sub

\* Mutant: the endpoint is matched on 'log', which logout contains too
isLoginEndpointMatchesLog(ep) == includes(toLowerCase(ep), <<"l", "o", "g">>)

isLoginEndpoint(ep) == includes(toLowerCase(ep), EpLogin)

\* Mutant: the cached expiry is compared without the 5 s buffer
headerCheckExpiredNoBuffer(state, time) ==
    IF state.tokenExpiry # NoExpiry
    THEN time >= DateGetTime(state.tokenExpiry)
    ELSE isTokenExpired(state.token, time)

\* The expiry test of prepareHeaders for a present token
headerCheckExpired(state, time) ==
    IF state.tokenExpiry # NoExpiry
    THEN time >= DateGetTime(state.tokenExpiry) - 5000
    ELSE isTokenExpired(state.token, time)

\* prepareHeaders: the authorization header of the request (Null: none) and
\* whether handleSessionExpiry was called.  The request is sent either way.
prepareHeaders(state, ep, time) ==
    IF isLoginEndpoint(ep) THEN [hdr |-> Null, expired |-> FALSE]
    ELSE IF state.token # Null
    THEN IF headerCheckExpired(state, time)
         THEN [hdr |-> Null, expired |-> TRUE]
         ELSE [hdr |-> state.token, expired |-> FALSE]
    ELSE [hdr |-> Null, expired |-> FALSE]

\* apiClient request interceptor: rejects with 'Token expired' (the request
\* is not sent) when the token is expired.
interceptorExpired(state, time) ==
    IF state.tokenExpiry # NoExpiry
    THEN time >= DateGetTime(state.tokenExpiry) - TOKEN_EXPIRY_BUFFER_MS
    ELSE isTokenExpired(state.token, time)

requestInterceptor(state, time) ==
    IF state.token # Null
    THEN IF interceptorExpired(state, time)
         THEN [hdr |-> Null, expired |-> TRUE, sent |-> FALSE]
         ELSE [hdr |-> state.token, expired |-> FALSE, sent |-> TRUE]
    ELSE [hdr |-> Null, expired |-> FALSE, sent |-> TRUE]

\* Mutant: the wrapper tests for 403 Forbidden
isUnauthorizedTests403(status) == status = 403

\* baseQueryWithReauth / the response interceptor: a 401 ends the session
isUnauthorized(status) == status = 401

Statuses == {200, 401, 500}

----------------------------------------------------------------------------
(* Session monitor (useSessionExpiry) *)

\* The hook's state: the token and tokenExpiry its effect captured, the
\* intervals it started and did not clear, the warning latch
NoMonitor == [mounted |-> FALSE, token |-> Null, tokenExpiry |-> NoExpiry,
              timers |-> 0, warningShown |-> FALSE]

\* Mutant: the route renders its children whatever isAuthenticated is
LayoutRenderedUnguarded(state, p) == p # LOGIN_PATH

\* The protected layout (AppLayout with Header and the monitor) is rendered
\* by ProtectedRoute only while isAuthenticated, on a path other than /login.
LayoutRendered(state, p) == p # LOGIN_PATH /\ state.isAuthenticated

\* isExpired as checkTokenExpiry computes it from its captured token and
\* tokenExpiry
monitorExpired(mon, time) ==
    IF mon.tokenExpiry # NoExpiry
    THEN time >= DateGetTime(mon.tokenExpiry)
    ELSE isTokenExpired(mon.token, time)

\* Mutant: the warning has no upper threshold
monitorExpiringSoonUnbounded(mon, time) ==
    IF mon.tokenExpiry # NoExpiry
    THEN LET timeRemaining == DateGetTime(mon.tokenExpiry) - time IN
         timeRemaining > 0
    ELSE isTokenExpiringSoon(mon.token, WARNING_THRESHOLD_MINUTES, time)

monitorExpiringSoon(mon, time) ==
    IF mon.tokenExpiry # NoExpiry
    THEN LET timeRemaining == DateGetTime(mon.tokenExpiry) - time IN
         timeRemaining > 0 /\ timeRemaining <= WARNING_THRESHOLD_MINUTES * 60 * 1000
    ELSE isTokenExpiringSoon(mon.token, WARNING_THRESHOLD_MINUTES, time)

monitorTimeRemaining(mon, time) ==
    IF mon.tokenExpiry # NoExpiry
    THEN DateGetTime(mon.tokenExpiry) - time
    ELSE getTokenTimeRemaining(mon.token, time)

\* showToast of the expiry warning, counted since the token last changed
showWarning(w) ==
    [w EXCEPT !.warnings = IF @ < MaxWarnings THEN @ + 1 ELSE @]

\* checkTokenExpiry with the closure mon: the world after it, the latch and
\* the toast it shows
checkTokenExpiry(w, mon, time) ==
    IF mon.token = Null
    THEN [w |-> w, warningShown |-> mon.warningShown, toast |-> "none"]
    ELSE IF monitorExpired(mon, time)
    THEN LET redirect(w1) ==
                 IF notAtLogin(w1.path) THEN assignLocation(w1, "monitor") ELSE w1
         IN [w |-> redirect(dispatchLogout(w)),
             warningShown |-> mon.warningShown, toast |-> "expired"]
    ELSE IF ~mon.warningShown /\ monitorExpiringSoon(mon, time)
            /\ monitorTimeRemaining(mon, time) > 0
    THEN [w |-> showWarning(w), warningShown |-> TRUE, toast |-> "warning"]
    ELSE [w |-> w, warningShown |-> mon.warningShown, toast |-> "none"]

\* What one call of checkTokenExpiry did: by the effect or by the interval,
\* with which captured token, at which location and store token, which toast
checkRecord(kind, mon, w, toast) ==
    [kind |-> kind, token |-> mon.token, tokenExpiry |-> mon.tokenExpiry,
     atPath |-> w.path, storeToken |-> w.auth.token, toast |-> toast]

\* Mutant: the effect returns no cleanup
effectCleanupLeaks(mon) == mon

\* The cleanup the effect returned when it had started an interval:
\* clearInterval(interval)
effectCleanup(mon) == [mon EXCEPT !.timers = IF @ > 0 THEN @ - 1 ELSE 0]

\* The effect of useSessionExpiry for a render that captured the token and
\* tokenExpiry of rendered: the previous run's cleanup, the latch reset, the
\* immediate check and the new interval
sessionEffect(w, rendered, mon, time) ==
    LET closure == [mounted |-> TRUE, token |-> rendered.token,
                    tokenExpiry |-> rendered.tokenExpiry,
                    timers |-> effectCleanup(mon).timers, warningShown |-> FALSE]
        run(c) ==
            IF c.token = Null
            THEN [w |-> w, mon |-> c, checks |-> <<>>]
            ELSE LET started(r) ==
                         [w |-> r.w,
                          mon |-> [c EXCEPT !.timers = @ + 1,
                                            !.warningShown = r.warningShown],
                          checks |-> <<checkRecord("effect", c, w, r.toast)>>]
                 IN started(checkTokenExpiry(w, c, time))
    IN run(closure)

\* The layout unmounts: the cleanup runs; an interval it did not clear keeps
\* the closure it captured
unmountMonitor(mon) ==
    LET cleared(c) == IF c.timers = 0 THEN NoMonitor ELSE [c EXCEPT !.mounted = FALSE]
    IN cleared(effectCleanup(mon))

\* React re-renders in the turn of a handler that changed the store or the
\* location (createRoot, main.tsx: updates from the store are synchronous and
\* their effects are flushed with the commit).  pre is the world the previous
\* render saw, w the world the handler left.  Effects of a mounted layout that
\* had not run yet are flushed first, with the values their render captured;
\* a changed token or tokenExpiry re-runs the effect; a layout that is no
\* longer rendered unmounts.
commitRender(pre, w, mon, time) ==
    LET changed == w.auth # pre.auth \/ w.path # pre.path
        flush == ~mon.mounted /\ changed /\ LayoutRendered(pre.auth, pre.path)
        unmount(b) ==
            [b EXCEPT !.mon = IF @.mounted /\ ~LayoutRendered(b.w.auth, b.w.path)
                              THEN unmountMonitor(@) ELSE @]
        rerun(a) ==
            IF /\ a.mon.mounted
               /\ LayoutRendered(a.w.auth, a.w.path)
               /\ \/ a.mon.token # a.w.auth.token
                  \/ a.mon.tokenExpiry # a.w.auth.tokenExpiry
            THEN [sessionEffect(a.w, a.w.auth, a.mon, time) EXCEPT
                    !.checks = a.checks \o @]
            ELSE a
    IN unmount(rerun(IF flush THEN sessionEffect(w, pre.auth, mon, time)
                     ELSE [w |-> w, mon |-> mon, checks |-> <<>>]))

----------------------------------------------------------------------------
(* Requests in flight and the record of the last operation *)

\* Pending requests are counted by the handler that awaits them: the login
\* form, the header's logout, a page through baseApi, a page through apiClient
Origins == {"loginForm", "header", "page", "axios"}
NoRequests == [o \in Origins |-> 0]
Pending(f) == f["loginForm"] + f["header"] + f["page"] + f["axios"]
AddRequest(f, o) == [f EXCEPT ![o] = @ + 1]
RemoveRequest(f, o) == [f EXCEPT ![o] = @ - 1]

NoOp ==
    [op |-> "none", ep |-> NoEp, via |-> "none", hdr |-> Null, sent |-> FALSE,
     threw |-> FALSE, fail |-> "none", argTok |-> Null, argUser |-> Null,
     pre |-> LoggedOut, post |-> LoggedOut, ended |-> FALSE, status |-> 0,
     checks |-> <<>>]

\* A step of the environment or of the router, and a handler of the program
\* with the auth state it started from
Env(name) == [NoOp EXCEPT !.op = name]
Op(name) == [NoOp EXCEPT !.op = name, !.pre = auth]

\* The handler left the world w: React re-renders, and the step is recorded
\* with the checks of the monitor that the re-render ran
Render(w, op) ==
    LET committed(r) ==
            /\ Commit(r.w)
            /\ monitor' = r.mon
            /\ last' = [op EXCEPT !.checks = r.checks]
    IN committed(commitRender(World, w, monitor, now))

\* The codec and the request cache at rest
NoCodec == [token |-> Null, time |-> 0, applied |-> FALSE, payload |-> NullPayload,
            expired |-> TRUE, threw |-> FALSE]
NoCache == <<>>

\* No interval is running; a component is not on screen
NoDue == 0 - 1
NotShown == <<>>

LocalAtRest ==
    /\ due = NoDue
    /\ licenseForm = NotShown
    /\ paymentPage = NotShown
    /\ licenseList = NotShown

----------------------------------------------------------------------------
(* Initial state: the page is loaded with whatever the storage holds *)

Init ==
    /\ now = 0
    /\ storage \in StorageContents
    /\ auth = getInitialAuthState(storage, now)
    /\ path \in Paths
    /\ navPending = FALSE
    /\ inflight = NoRequests
    /\ monitor = NoMonitor
    /\ last = [NoOp EXCEPT !.op = "init"]
    /\ expirySetAt = IF auth.tokenExpiry # NoExpiry THEN now ELSE NoExpiry
    /\ navAtLogin = {}
    /\ warnings = 0
    /\ codec = NoCodec
    /\ cache = NoCache
    /\ LocalAtRest

----------------------------------------------------------------------------
(* Actions *)

\* Wall-clock time passes
Tick ==
    /\ now < MaxNow
    /\ now' = now + TickMs
    /\ last' = Env("tick")
    /\ UNCHANGED <<auth, storage, path, navPending, inflight, monitor,
                   expirySetAt, navAtLogin, warnings, codec, cache, local>>

\* The document is loaded: the store is rebuilt from the storage, pending
\* requests and timers of the previous document are gone.
LoadPage(p) ==
    /\ auth' = getInitialAuthState(storage, now)
    /\ path' = p
    /\ navPending' = FALSE
    /\ inflight' = NoRequests
    /\ monitor' = NoMonitor
    /\ last' = Env("init")
    /\ expirySetAt' = IF auth'.tokenExpiry # NoExpiry THEN now ELSE NoExpiry
    /\ warnings' = 0
    /\ UNCHANGED <<storage, now, navAtLogin, codec, cache, local>>

\* The navigation assigned to window.location commits
CommitNavigation ==
    /\ navPending
    /\ LoadPage(LOGIN_PATH)

\* The user reloads the page or opens a URL of the application
UserReload ==
    /\ \E p \in Paths : LoadPage(p)

\* ProtectedRoute: <Navigate to={routes.login} replace /> when not authenticated
GuardRedirect ==
    /\ path # LOGIN_PATH
    /\ ~auth.isAuthenticated
    /\ Render(routerNavigate(World, LOGIN_PATH, "guard"), Env("guardRedirect"))
    /\ UNCHANGED <<now, inflight, codec, cache, local>>

\* History navigation inside the application (back / forward, a link)
UserNavigate ==
    /\ \E p \in Paths :
         /\ p # path
         /\ Render([World EXCEPT !.path = p], Env("userNavigate"))
    /\ UNCHANGED <<now, inflight, codec, cache, local>>

\* fetchBaseQuery: prepareHeaders, then the request is issued with the
\* headers it returned
fetchBaseQuery(state, ep, time) ==
    LET r == prepareHeaders(state, ep, time) IN
    [hdr |-> r.hdr, expired |-> r.expired, sent |-> TRUE]

\* A request through baseApi: prepareHeaders runs in the caller's turn
BaseQuerySend(ep, origin) ==
    LET r == fetchBaseQuery(auth, ep, now)
        w == IF r.expired THEN handleSessionExpiry(World, "transport") ELSE World
    IN /\ Pending(inflight) < MaxInflight
       /\ Render(w, [Op("prepare") EXCEPT !.ep = ep, !.via = "rtk", !.hdr = r.hdr,
                                          !.sent = r.sent, !.ended = r.expired])
       /\ inflight' = IF r.sent THEN AddRequest(inflight, origin) ELSE inflight
       /\ UNCHANGED <<now, codec, cache, local>>

\* LoginForm.onSubmit, up to the await of the login mutation
SubmitLogin ==
    /\ path = LOGIN_PATH
    /\ BaseQuerySend(EpLogin, "loginForm")

\* Header.handleLogout, up to the await of the logout mutation
HeaderLogoutClick ==
    /\ LayoutRendered(auth, path)
    /\ BaseQuerySend(EpLogout, "header")

\* A query or mutation hook of a protected page
PageRequest ==
    /\ LayoutRendered(auth, path)
    /\ BaseQuerySend(EpGetLicenses, "page")

\* A request through apiClient (axios)
ApiClientRequest ==
    LET r == requestInterceptor(auth, now)
        w == IF r.expired THEN handleSessionExpiry(World, "transport") ELSE World
    IN /\ LayoutRendered(auth, path)
       /\ Pending(inflight) < MaxInflight
       /\ Render(w, [Op("prepare") EXCEPT !.ep = EpGetLicenses, !.via = "axios",
                                          !.hdr = r.hdr, !.sent = r.sent,
                                          !.ended = r.expired])
       /\ inflight' = IF r.sent THEN AddRequest(inflight, "axios") ELSE inflight
       /\ UNCHANGED <<now, codec, cache, local>>

\* baseQueryWithReauth after the response arrived
afterResponse(w, status) ==
    IF isUnauthorized(status) THEN handleSessionExpiry(w, "transport") ELSE w

\* Mutant: logout and navigation follow the awaited call inside the try block
handleLogoutInTry(w, status) ==
    IF status = 200
    THEN routerNavigate(dispatchLogout(afterResponse(w, status)), LOGIN_PATH, "header")
    ELSE afterResponse(w, status)

\* Header.handleLogout after the await: the base query handled the response,
\* then the finally block dispatches logout and navigates to the login route
handleLogout(w, status) ==
    routerNavigate(dispatchLogout(afterResponse(w, status)), LOGIN_PATH, "header")

\* The login mutation settles.  On success onSubmit dispatches setCredentials;
\* refetchUserInfo() of the skipped query throws and is caught, and the form
\* navigates to the dashboard.  A throw of setCredentials, or a failed login,
\* ends in the catch block (setError).
LoginResponse ==
    \E status \in Statuses :
      /\ inflight["loginForm"] > 0
      /\ inflight' = RemoveRequest(inflight, "loginForm")
      /\ LET w1 == afterResponse(World, status) IN
         IF status = 200
         THEN \E token \in TokenSet, user \in UserSet, fail \in {"none", "token", "user"} :
                LET w2 == dispatchSetCredentials(w1, token, user, fail, now) IN
                Render(IF setCredentialsThrows(fail) THEN w2
                       ELSE routerNavigate(w2, DashboardPath, "loginForm"),
                       [Op("setCredentials") EXCEPT
                              !.ep = EpLogin, !.via = "rtk", !.status = status,
                              !.argTok = token, !.argUser = user, !.fail = fail,
                              !.threw = setCredentialsThrows(fail),
                              !.ended = isUnauthorized(status)])
         ELSE Render(w1, [Op("response") EXCEPT !.ep = EpLogin, !.via = "rtk",
                                                 !.status = status,
                                                 !.ended = isUnauthorized(status)])
      /\ UNCHANGED <<now, codec, cache, local>>

\* The logout mutation of Header.handleLogout settles: whatever the outcome,
\* the finally block dispatches logout() and navigates to routes.login.
HeaderLogoutResponse ==
    \E status \in Statuses :
      /\ inflight["header"] > 0
      /\ inflight' = RemoveRequest(inflight, "header")
      /\ Render(handleLogout(World, status),
                [Op("headerLogout") EXCEPT !.ep = EpLogout, !.via = "rtk",
                                           !.status = status, !.ended = TRUE])
      /\ UNCHANGED <<now, codec, cache, local>>

\* A page's request settles
PageResponse ==
    \E status \in Statuses :
      /\ inflight["page"] > 0
      /\ inflight' = RemoveRequest(inflight, "page")
      /\ Render(afterResponse(World, status),
                [Op("response") EXCEPT !.ep = EpGetLicenses, !.via = "rtk",
                                       !.status = status,
                                       !.ended = isUnauthorized(status)])
      /\ UNCHANGED <<now, codec, cache, local>>

\* apiClient's response interceptor: a 401 ends the session
ApiClientResponse ==
    \E status \in Statuses :
      /\ inflight["axios"] > 0
      /\ inflight' = RemoveRequest(inflight, "axios")
      /\ Render(afterResponse(World, status),
                [Op("response") EXCEPT !.ep = EpGetLicenses, !.via = "axios",
                                       !.status = status,
                                       !.ended = isUnauthorized(status)])
      /\ UNCHANGED <<now, codec, cache, local>>

\* The effects of the freshly mounted layout run: useSessionExpiry's effect
\* resets the latch, checks at once and starts the interval; a check that
\* ended the session unmounts the layout again.
MonitorEffectRun ==
    /\ LayoutRendered(auth, path)
    /\ ~monitor.mounted
    /\ LET committed(e, r) ==
               /\ Commit(r.w)
               /\ monitor' = r.mon
               /\ last' = [Op("monitorCheck") EXCEPT
                             !.checks = e.checks \o r.checks,
                             !.ended = \E i \in DOMAIN e.checks :
                                          e.checks[i].toast = "expired"]
           rendered(e) == committed(e, commitRender(World, e.w, e.mon, now))
       IN rendered(sessionEffect(World, auth, monitor, now))

MonitorEffect ==
    /\ MonitorEffectRun
    /\ UNCHANGED <<now, inflight, codec, cache, local>>

\* An interval fires: checkTokenExpiry with the token and expiry it captured
TimerFireRun ==
    /\ monitor.timers > 0
    /\ LET committed(c, r) ==
               /\ Commit(r.w)
               /\ monitor' = r.mon
               /\ last' = [Op("monitorCheck") EXCEPT
                             !.checks = <<checkRecord("interval", monitor, World, c.toast)>>
                                        \o r.checks,
                             !.ended = (c.toast = "expired")]
           rendered(c) ==
               committed(c, commitRender(World, c.w,
                                         [monitor EXCEPT !.warningShown = c.warningShown],
                                         now))
       IN rendered(checkTokenExpiry(World, monitor, now))

TimerFire ==
    /\ TimerFireRun
    /\ UNCHANGED <<now, inflight, codec, cache, local>>

Next ==
    \/ Tick
    \/ CommitNavigation
    \/ UserReload
    \/ GuardRedirect
    \/ UserNavigate
    \/ SubmitLogin
    \/ HeaderLogoutClick
    \/ PageRequest
    \/ ApiClientRequest
    \/ LoginResponse
    \/ HeaderLogoutResponse
    \/ PageResponse
    \/ ApiClientResponse
    \/ MonitorEffect
    \/ TimerFire

Spec == Init /\ [][Next]_vars

----------------------------------------------------------------------------
(* Login and the profile fetch of the layout *)

\* store.dispatch(updateUser(userInfo))
dispatchUpdateUser(w, info) ==
    [w EXCEPT !.auth = updateUserState(@, info)]

\* AppLayout's effect on [userInfo, isAuthenticated, user]: whether it
\* dispatches updateUser(userInfo)
profileEffectDispatches(state, info) ==
    /\ state.isAuthenticated
    /\ IF state.user # Null
       THEN /\ phoneOf(info) # ""
            /\ (phoneOf(info) # phoneOf(state.user) \/ phoneOf(state.user) = "")
       ELSE TRUE

\* AppLayout's useGetUserInfoQuery (skip: !isAuthenticated) fetches on mount,
\* and once more after 100 ms when the user has no phone
ProfileRequest ==
    /\ LayoutRendered(auth, path)
    /\ BaseQuerySend(EpGetUserInfo, "page")

\* getUserInfo settles: a 401 ends the session; data makes AppLayout's effect
\* run, which may dispatch updateUser(userInfo)
ProfileResponse ==
    \E status \in Statuses, info \in UserInfoSet :
      /\ inflight["page"] > 0
      /\ inflight' = RemoveRequest(inflight, "page")
      /\ LET w1 == afterResponse(World, status)
             dispatches == /\ status = 200
                           /\ LayoutRendered(w1.auth, w1.path)
                           /\ profileEffectDispatches(w1.auth, info)
             w2 == IF dispatches THEN dispatchUpdateUser(w1, info) ELSE w1
         IN Render(w2, [Op(IF dispatches THEN "updateUser" ELSE "response") EXCEPT
                          !.ep = EpGetUserInfo, !.via = "rtk", !.status = status,
                          !.argUser = IF dispatches THEN info ELSE Null,
                          !.post = w2.auth,
                          !.ended = isUnauthorized(status)])
      /\ UNCHANGED <<now, codec, cache, local>>

ProfileNext ==
    \/ Tick
    \/ CommitNavigation
    \/ SubmitLogin
    \/ LoginResponse
    \/ MonitorEffect
    \/ TimerFire
    \/ ProfileRequest
    \/ ProfileResponse

ProfileSpec == Init /\ [][ProfileNext]_vars

----------------------------------------------------------------------------
(* The token codec on its own: any token string, at any instant *)

sessionVars == <<auth, storage, now, path, navPending, inflight, monitor, last,
                 expirySetAt, navAtLogin, warnings>>

\* No session: nothing stored, the login page, no request, no monitor
SessionAtRest ==
    /\ now = 0
    /\ storage = EmptyStorage
    /\ auth = getInitialAuthState(storage, now)
    /\ path = LOGIN_PATH
    /\ navPending = FALSE
    /\ inflight = NoRequests
    /\ monitor = NoMonitor
    /\ last = NoOp
    /\ expirySetAt = NoExpiry
    /\ navAtLogin = {}
    /\ warnings = 0

CodecInit ==
    /\ SessionAtRest
    /\ codec \in {[NoCodec EXCEPT !.token = t] : t \in CodecTokens}
    /\ cache = NoCache
    /\ LocalAtRest

\* Date.now() moves on, by a millisecond or by a tick
CodecTick ==
    /\ \E d \in {1, TickMs} :
         /\ codec.time + d <= MaxNow
         /\ codec' = [NoCodec EXCEPT !.token = codec.token, !.time = codec.time + d]
    /\ UNCHANGED <<sessionVars, cache, local>>

\* decodeJWT(token) and isTokenExpired(token) are called; neither lets an
\* exception out (decodeJWT catches, isTokenExpired only calls decodeJWT)
CodecApply ==
    /\ ~codec.applied
    /\ codec' = [codec EXCEPT !.applied = TRUE,
                              !.payload = decodeJWT(codec.token),
                              !.expired = isTokenExpired(codec.token, codec.time),
                              !.threw = FALSE]
    /\ UNCHANGED <<sessionVars, cache, local>>

CodecNext ==
    \/ CodecTick
    \/ CodecApply

CodecSpec == CodecInit /\ [][CodecNext]_vars

----------------------------------------------------------------------------
(* Request cache: baseApi (createApi) with the endpoints injected into it *)

MaxComponents == 2
MaxMutations == 1
MaxWrites == 1

\* JavaScript undefined as a property value, a tag without id, an entry
\* without data
Undefined == "undefined"
NoId == 0
NoData == 0 - 1

\* The argument of a query hook: void, or a plain object given as its
\* properties in insertion order
VoidArg == [kind |-> "void", fields |-> <<>>]
ObjectArg(fields) == [kind |-> "object", fields |-> fields]

\* The order of Array.prototype.sort() on the property names in use
PropertyRank(name) ==
    CASE name = "limit" -> 1 [] name = "page" -> 2
      [] name = "search" -> 3 [] name = "status" -> 4

RECURSIVE sortedByName(_)
sortedByName(props) ==
    IF props = {} THEN <<>>
    ELSE LET first == CHOOSE p \in props :
                          \A q \in props : PropertyRank(p[1]) <= PropertyRank(q[1])
         IN <<first>> \o sortedByName(props \ {first})

\* JSON.stringify with the replacer of the default serializeQueryArgs: the
\* keys of a plain object sorted, properties that are undefined left out
stringifySorted(arg) ==
    IF arg.kind = "object"
    THEN [arg EXCEPT !.fields =
            sortedByName({arg.fields[i] : i \in {j \in DOMAIN arg.fields :
                                                   arg.fields[j][2] # Undefined}})]
    ELSE arg

\* The cache key of a query: endpointName(stringified arguments)
serializeQueryArgs(q) ==
    [endpointName |-> q.endpoint, queryArgs |-> stringifySorted(q.arg)]

\* LicenseListPage's queryParams, and the same filters written by another
\* component in another order
ListParams == ObjectArg(<<<<"page", "1">>, <<"limit", "10">>,
                          <<"status", Undefined>>, <<"search", Undefined>>>>)
ListParamsReordered == ObjectArg(<<<<"limit", "10">>, <<"page", "1">>>>)

Queries ==
    {[endpoint |-> "getLicenses", arg |-> ListParams],
     [endpoint |-> "getLicenses", arg |-> ListParamsReordered],
     [endpoint |-> "getDashboardStats", arg |-> VoidArg]}
NoQuery == [endpoint |-> "none", arg |-> VoidArg]

CacheKeys == {serializeQueryArgs(q) : q \in Queries}

\* Tags: a type of baseApi.tagTypes, with an id or without
Tag(type, id) == [type |-> type, id |-> id]

\* providesTags of the query endpoints
providesTags(endpoint, arg) ==
    CASE endpoint = "getLicenses" -> {Tag("License", NoId)}
      [] endpoint = "getDashboardStats" -> {Tag("Stats", NoId)}
      [] endpoint = "getUserInfo" -> {Tag("Auth", NoId)}
      [] OTHER -> {}

\* The write endpoints and the id they are called with
Writes ==
    {[endpoint |-> "createPayment", id |-> NoId],
     [endpoint |-> "deactivateActivation", id |-> 1],
     [endpoint |-> "updateLicense", id |-> 1],
     [endpoint |-> "increaseUserLimit", id |-> 1],
     [endpoint |-> "createLicense", id |-> NoId],
     [endpoint |-> "revokeLicense", id |-> 1],
     [endpoint |-> "renewSubscription", id |-> 1]}

\* invalidatesTags of the write endpoints, as (result, error, arg) => tags:
\* the arrays are static and the callbacks ignore _result and _error, so the
\* tags do not depend on whether the write succeeded (ok)
invalidatesTags(endpoint, ok, id) ==
    CASE endpoint = "createPayment" -> {Tag("Payment", NoId)}
      [] endpoint = "deactivateActivation" ->
             {Tag("Activation", id), Tag("Activation", NoId)}
      [] endpoint = "updateLicense" -> {Tag("License", id), Tag("License", NoId)}
      [] endpoint = "increaseUserLimit" -> {Tag("License", id), Tag("License", NoId)}
      [] endpoint = "createLicense" -> {Tag("License", NoId), Tag("Stats", NoId)}
      [] endpoint = "revokeLicense" ->
             {Tag("License", id), Tag("License", NoId), Tag("Stats", NoId)}
      [] endpoint = "renewSubscription" ->
             {Tag("Subscription", id), Tag("Subscription", NoId),
              Tag("License", NoId), Tag("Stats", NoId)}
      [] endpoint = "logout" -> {Tag("Auth", NoId)}

\* A provided tag is hit by an invalidated tag of its type: one without id
\* hits every id, one with an id hits that id
tagHits(invalidated, provided) ==
    /\ invalidated.type = provided.type
    /\ (invalidated.id = NoId \/ invalidated.id = provided.id)

tagsIntersect(invalidatedTags, providedTags) ==
    \E i \in invalidatedTags, t \in providedTags : tagHits(i, t)

\* The hooks that can be mounted at once, each with at most one query
Components == 1..MaxComponents

\* A cache entry: its status, the data of its last fulfilled request (the
\* version of the server's data it read), the tags it provides
NoEntry == [status |-> "uninitialized", data |-> NoData, tags |-> {}]

\* The record of a write that settled: the cache before it, the outcome
NoCacheOp == [op |-> "none", write |-> NoQuery, ok |-> TRUE, tags |-> {},
              pre |-> <<>>, preCalls |-> <<>>]

EmptyCache ==
    [sub |-> [c \in Components |-> NoQuery],
     entries |-> [k \in CacheKeys |-> NoEntry],
     calls |-> [k \in CacheKeys |-> 0],
     orphans |-> FALSE,
     mutations |-> <<>>,
     server |-> 0,
     last |-> NoCacheOp]

\* The components subscribed to the entry of key k
subscribers(sub, k) ==
    {c \in Components : sub[c] # NoQuery /\ serializeQueryArgs(sub[c]) = k}

\* What a subscribed component's hook returns as data
hookData(c) ==
    IF cache.sub[c] = NoQuery THEN NoData
    ELSE cache.entries[serializeQueryArgs(cache.sub[c])].data

\* Mutant: a request is started although one is in flight
queryThunkConditionIgnoresPending(entry, forced) ==
    forced \/ entry.status = "pending" \/ entry.data = NoData

\* The condition of the query thunk: no request while one is in flight;
\* otherwise a forced one (refetch) runs, an unforced one only when the entry
\* has no fulfilled data
queryThunkCondition(entry, forced) ==
    /\ entry.status # "pending"
    /\ (forced \/ entry.data = NoData)

\* initiate(arg) for key k: the entries and the network calls after it
initiate(c, k, forced) ==
    IF queryThunkCondition(c.entries[k], forced)
    THEN [c EXCEPT !.entries[k].status = "pending", !.calls[k] = @ + 1]
    ELSE c

\* Mutant: an invalidated entry without subscribers is kept as it is
invalidateEntryKeepsUnsubscribed(c, k) ==
    IF subscribers(c.sub, k) = {} THEN c ELSE initiate(c, k, TRUE)

\* api.util.invalidateTags reached the entry of key k: removed when nothing
\* subscribes to it (a request of it still in flight will be ignored),
\* refetched otherwise
invalidateEntry(c, k) ==
    IF subscribers(c.sub, k) = {}
    THEN [c EXCEPT !.entries[k] = NoEntry, !.calls[k] = 0,
                   !.orphans = @ \/ c.calls[k] > 0]
    ELSE initiate(c, k, TRUE)

\* The keys whose entries provide a tag that the invalidated tags hit
invalidated(c, tags) ==
    {k \in DOMAIN c.entries : /\ c.entries[k].status # "uninitialized"
                       /\ tagsIntersect(tags, c.entries[k].tags)}

RECURSIVE invalidateAll(_, _)
invalidateAll(c, keys) ==
    IF keys = {} THEN c
    ELSE LET k == CHOOSE x \in keys : TRUE
         IN invalidateAll(invalidateEntry(c, k), keys \ {k})

\* The invalidation after a write settled, fulfilled or rejected with a value
invalidateTags(c, tags) == invalidateAll(c, invalidated(c, tags))

RemoveAt(seq, i) == SubSeq(seq, 1, i - 1) \o SubSeq(seq, i + 1, Len(seq))

\* A component mounts a query hook: it subscribes, and a request is started
\* unless the entry is being fetched or holds data
CacheSubscribe ==
    /\ \E c \in Components, q \in Queries :
         /\ cache.sub[c] = NoQuery
         /\ LET k == serializeQueryArgs(q)
                subscribed == [cache EXCEPT !.sub[c] = q]
            IN cache' = [initiate(subscribed, k, FALSE) EXCEPT !.last = NoCacheOp]
    /\ UNCHANGED <<sessionVars, codec, local>>

\* The component unmounts: it unsubscribes; the request is not cancelled
CacheUnsubscribe ==
    /\ \E c \in Components :
         /\ cache.sub[c] # NoQuery
         /\ cache' = [cache EXCEPT
                        !.sub[c] = NoQuery, !.last = NoCacheOp]
    /\ UNCHANGED <<sessionVars, codec, local>>

\* The request of an entry settles with the server's data or with an error
QueryResponse ==
    /\ \E k \in DOMAIN cache.entries, ok \in BOOLEAN :
         /\ cache.calls[k] > 0
         /\ LET e == cache.entries[k]
                settled == IF e.status # "pending" THEN e
                           ELSE [status |-> IF ok THEN "fulfilled" ELSE "rejected",
                                 data |-> IF ok THEN cache.server ELSE e.data,
                                 tags |-> providesTags(k.endpointName, k.queryArgs)]
            IN cache' = [cache EXCEPT
                           !.entries[k] = settled,
                           !.calls[k] = @ - 1,
                           !.last = NoCacheOp]
    /\ UNCHANGED <<sessionVars, codec, local>>

\* The requests of entries that were removed meanwhile have settled: their
\* results are ignored
OrphanResponse ==
    /\ cache.orphans
    /\ cache' = [cache EXCEPT !.orphans = FALSE, !.last = NoCacheOp]
    /\ UNCHANGED <<sessionVars, codec, local>>

\* A page calls the trigger of a mutation hook
MutationSend ==
    /\ \E w \in Writes :
         /\ Len(cache.mutations) < MaxMutations
         /\ cache.server + Len(cache.mutations) < MaxWrites
         /\ cache' = [cache EXCEPT !.mutations = Append(@, w), !.last = NoCacheOp]
    /\ UNCHANGED <<sessionVars, codec, local>>

\* The write settles: fulfilled (the server's data changed) or rejected with
\* the error that the base query returned (an API error, or FETCH_ERROR for a
\* network failure).  Either way the tags of its invalidatesTags are
\* invalidated.
MutationResponse ==
    /\ \E i \in DOMAIN cache.mutations, ok \in BOOLEAN :
         LET w == cache.mutations[i]
             tags == invalidatesTags(w.endpoint, ok, w.id)
             settled == [cache EXCEPT !.mutations = RemoveAt(@, i),
                                      !.server = IF ok THEN @ + 1 ELSE @]
             after(c) ==
                 cache' = [c EXCEPT
                             !.last = [NoCacheOp EXCEPT
                                         !.op = "mutationResponse", !.write = w,
                                         !.ok = ok, !.tags = tags,
                                         !.pre = cache.entries,
                                         !.preCalls = cache.calls]]
         IN after(invalidateTags(settled, tags))
    /\ UNCHANGED <<sessionVars, codec, local>>

\* The signed-in session the pages run in: it does not change while the
\* cache is exercised
CacheInit ==
    /\ now = 0
    /\ storage = [token |-> "tE305", user |-> JSONstringify("u1")]
    /\ auth = getInitialAuthState(storage, now)
    /\ path = DashboardPath
    /\ navPending = FALSE
    /\ inflight = NoRequests
    /\ monitor = NoMonitor
    /\ last = NoOp
    /\ expirySetAt = now
    /\ navAtLogin = {}
    /\ warnings = 0
    /\ codec = NoCodec
    /\ cache = EmptyCache
    /\ LocalAtRest

CacheNext ==
    \/ CacheSubscribe
    \/ CacheUnsubscribe
    \/ QueryResponse
    \/ OrphanResponse
    \/ MutationSend
    \/ MutationResponse

CacheSpec == CacheInit /\ [][CacheNext]_vars

----------------------------------------------------------------------------
(* The request cache across sessions: the hooks of the layout and of its
   pages, the retention of unused entries, and the ways a session ends *)

\* useGetUserInfoQuery(undefined, ...) and useGetDashboardStatsQuery()
UserInfoQuery == [endpoint |-> "getUserInfo", arg |-> VoidArg]
StatsQuery == [endpoint |-> "getDashboardStats", arg |-> VoidArg]
LayoutKeys == {serializeQueryArgs(q) : q \in {UserInfoQuery, StatsQuery}}

\* Component 1 is AppLayout, component 2 the page inside it
AppLayoutHook == 1
PageHook == 2

\* The record of a step on the cache: the hook's key, whether it forced a
\* refetch, the status of the logout call, the entries and calls before it
NoLayoutOp == [op |-> "none", key |-> NoQuery, forced |-> FALSE, status |-> 0,
               pre |-> <<>>, preCalls |-> <<>>]

\* The cache of a freshly loaded document; unused[k]: the retention timer of
\* the entry of key k (keepUnusedDataFor) is running
FreshCache ==
    [sub |-> [c \in Components |-> NoQuery],
     entries |-> [k \in LayoutKeys |-> NoEntry],
     calls |-> [k \in LayoutKeys |-> 0],
     orphans |-> FALSE,
     mutations |-> <<>>,
     server |-> 0,
     unused |-> [k \in LayoutKeys |-> FALSE],
     last |-> NoLayoutOp]

\* refetchOnMountOrArgChange of the hook of component c
refetchOnMountOrArgChange(c) == c = AppLayoutHook

\* A hook mounts with query q: it subscribes, the retention timer of the
\* entry no longer applies, and initiate runs with forceRefetch
mountHook(c, comp, q) ==
    LET k == serializeQueryArgs(q) IN
    initiate([c EXCEPT !.sub[comp] = q, !.unused[k] = FALSE], k,
             refetchOnMountOrArgChange(comp))

\* A hook unmounts: it unsubscribes, and the retention timer of an entry
\* left without subscribers starts
unmountHook(c, comp) ==
    IF c.sub[comp] = NoQuery THEN c
    ELSE LET k == serializeQueryArgs(c.sub[comp])
             left == [c EXCEPT !.sub[comp] = NoQuery]
         IN [left EXCEPT !.unused[k] = subscribers(left.sub, k) = {}]

\* ProtectedRoute stops rendering its children: the page and the layout unmount
unmountLayout(c) == unmountHook(unmountHook(c, PageHook), AppLayoutHook)

\* The retention timer of key k fired: the entry is removed unless something
\* subscribes to it
removeQueryResult(c, k) ==
    IF subscribers(c.sub, k) # {} THEN [c EXCEPT !.unused[k] = FALSE]
    ELSE [c EXCEPT !.unused[k] = FALSE, !.entries[k] = NoEntry, !.calls[k] = 0,
                   !.orphans = @ \/ c.calls[k] > 0]

stepRecord(name, q, forced, status) ==
    [NoLayoutOp EXCEPT !.op = name, !.key = q, !.forced = forced, !.status = status,
                       !.pre = cache.entries, !.preCalls = cache.calls]

cacheFrame == <<now, inflight, monitor, last, codec, local>>

\* AppLayout mounts: useGetUserInfoQuery(undefined, {skip: !isAuthenticated,
\* refetchOnMountOrArgChange: true})
LayoutMount ==
    /\ LayoutRendered(auth, path)
    /\ cache.sub[AppLayoutHook] = NoQuery
    /\ cache' = [mountHook(cache, AppLayoutHook, UserInfoQuery) EXCEPT
                   !.last = stepRecord("subscribe", UserInfoQuery, TRUE, 0)]
    /\ UNCHANGED <<sessionVars, codec, local>>

\* The page inside the layout mounts: SettingsPage's useGetUserInfoQuery() or
\* Dashboard's useGetDashboardStatsQuery()
PageMount ==
    /\ LayoutRendered(auth, path)
    /\ cache.sub[AppLayoutHook] # NoQuery
    /\ cache.sub[PageHook] = NoQuery
    /\ \E q \in {UserInfoQuery, StatsQuery} :
         cache' = [mountHook(cache, PageHook, q) EXCEPT
                     !.last = stepRecord("subscribe", q, FALSE, 0)]
    /\ UNCHANGED <<sessionVars, codec, local>>

\* A route change replaces the page, or the layout with its page
RouteChange ==
    /\ \E from \in {AppLayoutHook, PageHook} :
         /\ cache.sub[from] # NoQuery
         /\ cache' = [(IF from = AppLayoutHook THEN unmountLayout(cache)
                       ELSE unmountHook(cache, PageHook)) EXCEPT
                        !.last = stepRecord("unsubscribe", NoQuery, FALSE, 0)]
    /\ UNCHANGED <<sessionVars, codec, local>>

\* keepUnusedDataFor of an entry has elapsed since its last subscriber left
RetentionElapsed ==
    /\ \E q \in {UserInfoQuery, StatsQuery} :
         /\ cache.unused[serializeQueryArgs(q)]
         /\ cache' = [removeQueryResult(cache, serializeQueryArgs(q)) EXCEPT
                        !.last = stepRecord("elapsed", q, FALSE, 0)]
    /\ UNCHANGED <<sessionVars, codec, local>>

\* The monitor's check or the transport (expiry, 401) ends the session:
\* logout and the assignment of the login location; the guard unmounts the
\* layout
DetectorLogout ==
    /\ auth.isAuthenticated
    /\ \E by \in {"monitor", "transport"} : Commit(handleSessionExpiry(World, by))
    /\ cache' = [unmountLayout(cache) EXCEPT
                   !.last = stepRecord("logout", NoQuery, FALSE, 0)]
    /\ UNCHANGED cacheFrame

\* The assigned location loads: a new document with a new store
DocumentLoad ==
    /\ navPending
    /\ auth' = getInitialAuthState(storage, now)
    /\ path' = LOGIN_PATH
    /\ navPending' = FALSE
    /\ expirySetAt' = IF auth'.tokenExpiry # NoExpiry THEN now ELSE NoExpiry
    /\ warnings' = 0
    /\ cache' = FreshCache
    /\ UNCHANGED <<storage, navAtLogin, cacheFrame>>

\* Header.handleLogout calls the logout mutation
LogoutSend ==
    /\ LayoutRendered(auth, path)
    /\ cache.sub[AppLayoutHook] # NoQuery
    /\ cache.mutations = <<>>
    /\ cache' = [cache EXCEPT !.mutations = <<[endpoint |-> "logout", id |-> NoId]>>,
                              !.last = stepRecord("logoutSend", NoQuery, FALSE, 0)]
    /\ UNCHANGED <<sessionVars, codec, local>>

\* The logout mutation settles: its tags are invalidated, the base query
\* handles a 401, and the handler's finally block ends the session
LogoutSettle ==
    /\ cache.mutations # <<>>
    /\ \E status \in Statuses :
         LET w == cache.mutations[1]
             tags == invalidatesTags(w.endpoint, status = 200, w.id)
             settled == [cache EXCEPT !.mutations = <<>>]
             after(c) ==
                 cache' = [unmountLayout(c) EXCEPT
                             !.last = stepRecord("headerLogout", NoQuery, FALSE, status)]
         IN /\ after(invalidateTags(settled, tags))
            /\ Commit(handleLogout(World, status))
    /\ UNCHANGED cacheFrame

\* The next login in the same document: setCredentials and the navigation to
\* the dashboard
NextLogin ==
    /\ path = LOGIN_PATH
    /\ ~auth.isAuthenticated
    /\ ~navPending
    /\ Commit(routerNavigate(dispatchSetCredentials(World, "tE305", "u1", "none", now),
                             DashboardPath, "loginForm"))
    /\ cache' = [cache EXCEPT !.last = stepRecord("login", NoQuery, FALSE, 0)]
    /\ UNCHANGED cacheFrame

LayoutCacheInit ==
    /\ now = 0
    /\ storage = [token |-> "tE305", user |-> JSONstringify("u1")]
    /\ auth = getInitialAuthState(storage, now)
    /\ path = DashboardPath
    /\ navPending = FALSE
    /\ inflight = NoRequests
    /\ monitor = NoMonitor
    /\ last = NoOp
    /\ expirySetAt = now
    /\ navAtLogin = {}
    /\ warnings = 0
    /\ codec = NoCodec
    /\ cache = FreshCache
    /\ LocalAtRest

LayoutCacheNext ==
    \/ LayoutMount
    \/ PageMount
    \/ RouteChange
    \/ RetentionElapsed
    \/ QueryResponse
    \/ OrphanResponse
    \/ DetectorLogout
    \/ DocumentLoad
    \/ LogoutSend
    \/ LogoutSettle
    \/ NextLogin

LayoutCacheSpec == LayoutCacheInit /\ [][LayoutCacheNext]_vars

----------------------------------------------------------------------------
(* The session monitor against the clock: setInterval(checkTokenExpiry,
   CHECK_INTERVAL) fires when its time has come, and effects run before time
   passes *)

MaxClockTicks == 68
MaxClock == MaxClockTicks * TickMs

\* Mutant: the interval is one minute
nextDueMinute(time) == time + 60000

\* setInterval(..., CHECK_INTERVAL) started or re-armed at time
nextDue(time) == time + CHECK_INTERVAL

\* When the interval fires next after a step that left the hook as mon and
\* ran checks: never without an interval, CHECK_INTERVAL after the effect
\* started one, otherwise as armed
intervalDue(checks, mon, time, armed) ==
    IF mon.timers = 0 THEN NoDue
    ELSE IF \E i \in DOMAIN checks : checks[i].kind = "effect" THEN nextDue(time)
    ELSE armed

othersAtRest ==
    /\ licenseForm = NotShown
    /\ paymentPage = NotShown
    /\ licenseList = NotShown

\* A signed-in session on the dashboard, loaded at any phase of the interval
ExpiryInit ==
    /\ now \in {k * TickMs : k \in 0..(CHECK_INTERVAL \div TickMs - 1)}
    /\ storage \in {[token |-> t, user |-> JSONstringify("u1")] : t \in {"tE10", "tE305"}}
    /\ auth = getInitialAuthState(storage, now)
    /\ auth.isAuthenticated
    /\ path = DashboardPath
    /\ navPending = FALSE
    /\ inflight = NoRequests
    /\ monitor = NoMonitor
    /\ last = [NoOp EXCEPT !.op = "init"]
    /\ expirySetAt = now
    /\ navAtLogin = {}
    /\ warnings = 0
    /\ codec = NoCodec
    /\ cache = NoCache
    /\ due = NoDue
    /\ othersAtRest

\* Time passes up to the instant the interval is due; pending effects of a
\* rendered layout run first
ExpiryTick ==
    /\ now < MaxClock
    /\ ~(LayoutRendered(auth, path) /\ ~monitor.mounted)
    /\ monitor.timers > 0 => now < due
    /\ now' = now + TickMs
    /\ last' = Env("tick")
    /\ UNCHANGED <<auth, storage, path, navPending, inflight, monitor,
                   expirySetAt, navAtLogin, warnings, codec, cache, local>>

\* The effect of the mounted layout: the immediate check and setInterval
ExpiryEffect ==
    /\ MonitorEffectRun
    /\ due' = intervalDue(last'.checks, monitor', now, due)
    /\ UNCHANGED <<now, inflight, codec, cache, licenseForm, paymentPage, licenseList>>

\* The interval is due and fires; it stays armed for CHECK_INTERVAL later
ExpiryInterval ==
    /\ now = due
    /\ TimerFireRun
    /\ due' = intervalDue(last'.checks, monitor', now, nextDue(due))
    /\ UNCHANGED <<now, inflight, codec, cache, licenseForm, paymentPage, licenseList>>

\* The user moves between the login page and the dashboard: the layout
\* unmounts and mounts again
ExpiryNavigate ==
    /\ \E p \in Paths :
         /\ p # path
         /\ Render([World EXCEPT !.path = p], Env("userNavigate"))
    /\ due' = intervalDue(last'.checks, monitor', now, due)
    /\ UNCHANGED <<now, inflight, codec, cache, licenseForm, paymentPage, licenseList>>

ExpiryNext ==
    \/ ExpiryTick
    \/ ExpiryEffect
    \/ ExpiryInterval
    \/ ExpiryNavigate
    \/ CommitNavigation
    \/ GuardRedirect

ExpirySpec == ExpiryInit /\ [][ExpiryNext]_vars

----------------------------------------------------------------------------
(* LicenseForm: verification of the customer's phone by a one-time code *)

\* The phone numbers typed into the field ("" is the empty field) and the
\* codes typed into the code field: none, too short, six digits
Phones == {"+9611", "+9612"}
NoPhone == ""
OtpCodes == {"", "123", "123456"}
StringLength(code) == CASE code = "" -> 0 [] code = "123" -> 3 [] code = "123456" -> 6

\* The verification token the server issues for a phone number is named by
\* that number
tokenIssuedFor(phone) == phone

\* The component's state, the arguments of the requests it awaits, and what
\* its last submit sent
NoSubmit == [phone |-> NoPhone, verificationToken |-> Null, sent |-> FALSE]
NewLicenseForm ==
    [customerPhone |-> NoPhone, verificationToken |-> Null, otpCode |-> "",
     otpSent |-> FALSE, phoneVerified |-> FALSE,
     sendingTo |-> Null, verifying |-> Null, submitted |-> NoSubmit,
     op |-> "mount"]

\* handlePhoneChange: the verification state is reset
handlePhoneChange(form) ==
    [form EXCEPT !.otpSent = FALSE, !.otpCode = "", !.phoneVerified = FALSE,
                 !.verificationToken = Null]

\* The verification section is rendered with the send button, or with the
\* code field and the verify button
sendButtonShown(form) ==
    form.customerPhone # NoPhone /\ ~form.phoneVerified /\ ~form.otpSent
codeFieldShown(form) ==
    form.customerPhone # NoPhone /\ ~form.phoneVerified /\ form.otpSent

formFrame == <<sessionVars, codec, cache, due, paymentPage, licenseList>>

\* PhoneInput.onChange: handlePhoneChange(value), then field.onChange(value)
PhoneEdit ==
    /\ \E value \in Phones \cup {NoPhone} :
         /\ value # licenseForm.customerPhone
         /\ licenseForm' = [handlePhoneChange(licenseForm) EXCEPT
                              !.customerPhone = value, !.op = "phoneChange"]
    /\ UNCHANGED formFrame

\* handleSendOTP up to the await
SendOTPClick ==
    /\ sendButtonShown(licenseForm)
    /\ licenseForm.sendingTo = Null
    /\ licenseForm' = [licenseForm EXCEPT !.sendingTo = licenseForm.customerPhone,
                                          !.op = "sendOTP"]
    /\ UNCHANGED formFrame

\* handleSendOTP after the await: setOtpSent(true) unless the call failed
SendOTPResponse ==
    /\ licenseForm.sendingTo # Null
    /\ \E ok \in BOOLEAN :
         licenseForm' = [licenseForm EXCEPT !.sendingTo = Null,
                                            !.otpSent = IF ok THEN TRUE ELSE @,
                                            !.op = "sendOTPResponse"]
    /\ UNCHANGED formFrame

\* The code field's onChange
OtpCodeEdit ==
    /\ codeFieldShown(licenseForm)
    /\ \E code \in OtpCodes :
         /\ code # licenseForm.otpCode
         /\ licenseForm' = [licenseForm EXCEPT !.otpCode = code, !.op = "codeChange"]
    /\ UNCHANGED formFrame

\* The "Resend Code" button
ResendClick ==
    /\ codeFieldShown(licenseForm)
    /\ licenseForm' = [licenseForm EXCEPT !.otpSent = FALSE, !.otpCode = "",
                                          !.op = "resend"]
    /\ UNCHANGED formFrame

\* handleVerifyOTP up to the await
VerifyOTPClick ==
    /\ codeFieldShown(licenseForm)
    /\ licenseForm.verifying = Null
    /\ StringLength(licenseForm.otpCode) = 6
    /\ licenseForm' = [licenseForm EXCEPT !.verifying = licenseForm.customerPhone,
                                          !.op = "verifyOTP"]
    /\ UNCHANGED formFrame

\* handleVerifyOTP after the await: the token of the result is stored and the
\* phone marked verified, unless the call failed
VerifyOTPResponse ==
    /\ licenseForm.verifying # Null
    /\ \E ok \in BOOLEAN :
         licenseForm' =
             IF ok
             THEN [licenseForm EXCEPT
                     !.verificationToken = tokenIssuedFor(licenseForm.verifying),
                     !.phoneVerified = TRUE, !.verifying = Null,
                     !.op = "verifyOTPResponse"]
             ELSE [licenseForm EXCEPT !.verifying = Null, !.op = "verifyOTPResponse"]
    /\ UNCHANGED formFrame

\* onFormSubmit: the form's data with verificationToken || undefined
FormSubmit ==
    /\ licenseForm.customerPhone # NoPhone
    /\ licenseForm' = [licenseForm EXCEPT
                         !.submitted = [phone |-> licenseForm.customerPhone,
                                        verificationToken |-> licenseForm.verificationToken,
                                        sent |-> TRUE],
                         !.op = "submit"]
    /\ UNCHANGED formFrame

\* The create-license page shows the empty form in a signed-in session
FormInit ==
    /\ now = 0
    /\ storage = [token |-> "tE305", user |-> JSONstringify("u1")]
    /\ auth = getInitialAuthState(storage, now)
    /\ path = DashboardPath
    /\ navPending = FALSE
    /\ inflight = NoRequests
    /\ monitor = NoMonitor
    /\ last = NoOp
    /\ expirySetAt = now
    /\ navAtLogin = {}
    /\ warnings = 0
    /\ codec = NoCodec
    /\ cache = NoCache
    /\ due = NoDue
    /\ licenseForm = NewLicenseForm
    /\ paymentPage = NotShown
    /\ licenseList = NotShown

FormNext ==
    \/ PhoneEdit
    \/ SendOTPClick
    \/ SendOTPResponse
    \/ OtpCodeEdit
    \/ ResendClick
    \/ VerifyOTPClick
    \/ VerifyOTPResponse
    \/ FormSubmit

FormSpec == FormInit /\ [][FormNext]_vars

----------------------------------------------------------------------------
(* PaymentCreatePage: the license looked up for the key typed into the form *)

\* The license keys typed into the field ("" is the empty field); every key
\* has a license on the server, named by its key
LicenseKeys == {"KEY-1", "KEY-2"}
NoKey == ""
licenseOf(key) == key

NoPayment == [licenseId |-> Null, licenseKey |-> NoKey, sent |-> FALSE]

\* The component's state: the key field, the license shown, the key captured
\* by the pending debounce timer, the keys of the lookups in flight, and the
\* payment its last submit created
NewPaymentPage(initialLicenseKey) ==
    [licenseKey |-> initialLicenseKey, licenseData |-> Null, timer |-> Null,
     lookups |-> IF initialLicenseKey # NoKey THEN {initialLicenseKey} ELSE {},
     payment |-> NoPayment, op |-> "mount"]

\* handleLicenseKeyChange: the key is stored, the license cleared, the
\* previous timer cleared and, for a key that is not blank, a new one set
handleLicenseKeyChange(page, value) ==
    [page EXCEPT !.licenseKey = value, !.licenseData = Null,
                 !.timer = IF value = NoKey THEN Null ELSE value]

\* validateForm, the other fields being valid
validateForm(page) == page.licenseKey # NoKey /\ page.licenseData # Null

pageFrame == <<sessionVars, codec, cache, due, licenseForm, licenseList>>

LicenseKeyEdit ==
    /\ \E value \in LicenseKeys \cup {NoKey} :
         /\ value # paymentPage.licenseKey
         /\ paymentPage' = [handleLicenseKeyChange(paymentPage, value) EXCEPT
                              !.op = "keyChange"]
    /\ UNCHANGED pageFrame

\* The debounce timer fires: fetchLicenseByKey(value.trim()) is called
LookupTimerFire ==
    /\ paymentPage.timer # Null
    /\ paymentPage' = [paymentPage EXCEPT !.lookups = @ \cup {paymentPage.timer},
                                          !.timer = Null, !.op = "lookup"]
    /\ UNCHANGED pageFrame

\* A lookup settles: setLicenseData(result), or setLicenseData(null) when it
\* failed
LookupResponse ==
    /\ \E key \in paymentPage.lookups, ok \in BOOLEAN :
         paymentPage' = [paymentPage EXCEPT
                           !.lookups = @ \ {key},
                           !.licenseData = IF ok THEN licenseOf(key) ELSE Null,
                           !.op = "lookupResponse"]
    /\ UNCHANGED pageFrame

\* handleSubmit: createPayment({licenseId: licenseData.id, ...}) when the
\* form is valid
PaymentSubmit ==
    /\ validateForm(paymentPage)
    /\ paymentPage' = [paymentPage EXCEPT
                         !.payment = [licenseId |-> paymentPage.licenseData,
                                      licenseKey |-> paymentPage.licenseKey,
                                      sent |-> TRUE],
                         !.op = "submit"]
    /\ UNCHANGED pageFrame

\* The page is opened in a signed-in session, with or without a licenseKey
\* in the URL; with one, the mount effect has started its lookup
PaymentInit ==
    /\ now = 0
    /\ storage = [token |-> "tE305", user |-> JSONstringify("u1")]
    /\ auth = getInitialAuthState(storage, now)
    /\ path = DashboardPath
    /\ navPending = FALSE
    /\ inflight = NoRequests
    /\ monitor = NoMonitor
    /\ last = NoOp
    /\ expirySetAt = now
    /\ navAtLogin = {}
    /\ warnings = 0
    /\ codec = NoCodec
    /\ cache = NoCache
    /\ due = NoDue
    /\ licenseForm = NotShown
    /\ paymentPage \in {NewPaymentPage(k) : k \in LicenseKeys \cup {NoKey}}
    /\ licenseList = NotShown

PaymentNext ==
    \/ LicenseKeyEdit
    \/ LookupTimerFire
    \/ LookupResponse
    \/ PaymentSubmit

PaymentSpec == PaymentInit /\ [][PaymentNext]_vars

----------------------------------------------------------------------------
(* LicenseListPage: filters, page index and the debounced search *)

MaxPage == 1

SearchTexts == {"", "a", "ab"}
StatusOptions == {"", "active"}
FreeTrialOptions == {"", "true"}
RowsPerPageOptions == {10, 25}
DEFAULT_LIMIT == 10

\* queryParams of useGetLicensesQuery as the render computes them
queryParams(l) ==
    [page |-> l.page + 1, limit |-> l.rowsPerPage,
     status |-> IF l.statusFilter = "" THEN Undefined ELSE l.statusFilter,
     search |-> IF l.debouncedSearchQuery = "" THEN Undefined
                ELSE l.debouncedSearchQuery,
     isFreeTrial |-> IF l.freeTrialFilter = "" THEN Undefined
                     ELSE l.freeTrialFilter]

\* The filters among them: everything but the page
filtersOf(params) == [params EXCEPT !.page = 0]

\* The component after its first render and effects: the debounce effect has
\* set a timer for the initial search text.  timers: the texts captured by
\* the timeouts that are pending; pre: the queryParams of the previous render
NewLicenseList ==
    [mounted |-> TRUE, page |-> 0, rowsPerPage |-> DEFAULT_LIMIT, statusFilter |-> "",
     freeTrialFilter |-> "", searchQuery |-> "", debouncedSearchQuery |-> "",
     timers |-> {""}, op |-> "mount",
     pre |-> [page |-> 1, limit |-> DEFAULT_LIMIT, status |-> Undefined,
              search |-> Undefined, isFreeTrial |-> Undefined]]

\* Mutant: the timeout is not cleared
clearTimeoutLeaves(timers) == timers

\* clearTimeout(searchDebounceTimerRef.current)
clearTimeout(timers) == {}

\* The debounce effect for a changed searchQuery: the cleanup of the previous
\* run and the effect clear the pending timer, then a new one is set
debounceEffect(l) ==
    [l EXCEPT !.timers = clearTimeout(@) \cup {l.searchQuery}]

\* A handler ran on l and left next: the step is recorded
listStep(next, name) ==
    licenseList' = [next EXCEPT !.op = name, !.pre = queryParams(licenseList)]

listFrame == <<sessionVars, codec, cache, due, licenseForm, paymentPage>>

\* handleSearchChange, and the effect of the render that follows
SearchChange ==
    /\ licenseList.mounted
    /\ \E text \in SearchTexts :
         /\ text # licenseList.searchQuery
         /\ listStep(debounceEffect([licenseList EXCEPT !.searchQuery = text]),
                     "searchChange")
    /\ UNCHANGED listFrame

\* A debounce timeout fires: setDebouncedSearchQuery(searchQuery) and
\* setPage(0) with the text it captured, rendered as one update
DebounceFire ==
    /\ \E text \in licenseList.timers :
         listStep([licenseList EXCEPT !.debouncedSearchQuery = text, !.page = 0,
                                      !.timers = @ \ {text}],
                  "debounce")
    /\ UNCHANGED listFrame

\* handleStatusChange
StatusChange ==
    /\ licenseList.mounted
    /\ \E value \in StatusOptions :
         /\ value # licenseList.statusFilter
         /\ listStep([licenseList EXCEPT !.statusFilter = value, !.page = 0],
                     "statusChange")
    /\ UNCHANGED listFrame

\* handleFreeTrialChange
FreeTrialChange ==
    /\ licenseList.mounted
    /\ \E value \in FreeTrialOptions :
         /\ value # licenseList.freeTrialFilter
         /\ listStep([licenseList EXCEPT !.freeTrialFilter = value, !.page = 0],
                     "freeTrialChange")
    /\ UNCHANGED listFrame

\* handleRowsPerPageChange
RowsPerPageChange ==
    /\ licenseList.mounted
    /\ \E value \in RowsPerPageOptions :
         /\ value # licenseList.rowsPerPage
         /\ listStep([licenseList EXCEPT !.rowsPerPage = value, !.page = 0],
                     "rowsPerPageChange")
    /\ UNCHANGED listFrame

\* The table's onPageChange: setPage
PageChange ==
    /\ licenseList.mounted
    /\ \E newPage \in 0..MaxPage :
         /\ newPage # licenseList.page
         /\ listStep([licenseList EXCEPT !.page = newPage], "pageChange")
    /\ UNCHANGED listFrame

\* The page unmounts: the cleanup of the debounce effect runs
ListUnmount ==
    /\ licenseList.mounted
    /\ listStep([licenseList EXCEPT !.mounted = FALSE, !.timers = clearTimeout(@)],
                "unmount")
    /\ UNCHANGED listFrame

\* The page is opened again: a new instance; timeouts that were left pending
\* belong to the old one
ListMount ==
    /\ ~licenseList.mounted
    /\ licenseList.timers = {}
    /\ licenseList' = NewLicenseList
    /\ UNCHANGED listFrame

ListInit ==
    /\ now = 0
    /\ storage = [token |-> "tE305", user |-> JSONstringify("u1")]
    /\ auth = getInitialAuthState(storage, now)
    /\ path = DashboardPath
    /\ navPending = FALSE
    /\ inflight = NoRequests
    /\ monitor = NoMonitor
    /\ last = NoOp
    /\ expirySetAt = now
    /\ navAtLogin = {}
    /\ warnings = 0
    /\ codec = NoCodec
    /\ cache = NoCache
    /\ due = NoDue
    /\ licenseForm = NotShown
    /\ paymentPage = NotShown
    /\ licenseList = NewLicenseList

ListNext ==
    \/ SearchChange
    \/ DebounceFire
    \/ StatusChange
    \/ FreeTrialChange
    \/ RowsPerPageChange
    \/ PageChange
    \/ ListUnmount
    \/ ListMount

ListSpec == ListInit /\ [][ListNext]_vars

----------------------------------------------------------------------------
(* Properties *)

\* The token of state is known to be bad at time t: at or past the cached
\* expiry less 5 s or, with no cached expiry, not decodable to a claim set
\* whose exp lies more than 5 s ahead.
KnownBad(state, t) ==
    IF state.tokenExpiry # NoExpiry
    THEN t >= state.tokenExpiry - 5000
    ELSE LET payload == decodeJWT(state.token) IN
         ~(payload.ok /\ payload.hasExp /\ payload.exp # 0
           /\ t < payload.exp * 1000 - 5000)

SessionEnded ==
    /\ auth = LoggedOut
    /\ storage = EmptyStorage

\* C1: in every reachable state, isAuthenticated implies that the token is
\* non-null and that the cached expiry, if any, was later than the wall-clock
\* time at which it was set.
C1_AuthenticatedImpliesFutureExpiry ==
    auth.isAuthenticated =>
        /\ auth.token # Null
        /\ auth.tokenExpiry # NoExpiry => DateGetTime(auth.tokenExpiry) > expirySetAt

\* C2: reconstruction from storage yields isAuthenticated with the recomputed
\* expiry when the stored token is present and not expired, and the fully
\* logged-out state in every other case.
C2_InitialStateReconstruction ==
    last.op = "init" =>
        IF storage.token # Null /\ ~isTokenExpired(storage.token, now)
        THEN /\ auth.isAuthenticated
             /\ auth.tokenExpiry = toISOString(getTokenExpirationTime(storage.token))
        ELSE auth = LoggedOut

\* C3: after any request through the base query completed with status 401,
\* the store is not authenticated, holds no token, and the storage holds
\* neither the token nor the user item.
C3_UnauthorizedEndsSession ==
    (last.status = 401 /\ last.via = "rtk") =>
        /\ ~auth.isAuthenticated
        /\ auth.token = Null
        /\ storage.token = Null
        /\ storage.user = AbsentItem

\* C3 witness: a 401 answer to a page's request ended an authenticated session
C3_Witness ==
    /\ last.op = "response"
    /\ last.status = 401
    /\ last.via = "rtk"
    /\ last.ep = EpGetLicenses
    /\ last.pre.isAuthenticated
    /\ SessionEnded

\* C4: a non-login request prepared while the token is present and expired
\* ends the session and is not sent.
C4_ExpiredRequestAborted ==
    (/\ last.op = "prepare"
     /\ last.ep # EpLogin
     /\ last.pre.token # Null
     /\ KnownBad(last.pre, now)) =>
        /\ SessionEnded
        /\ ~last.sent

\* C5: a request carries 'Bearer <token>' only if the token is the store's
\* non-null token and is not known to be bad when the headers are prepared.
C5_NoKnownBadBearer ==
    (last.op = "prepare" /\ last.hdr # Null) =>
        /\ last.pre.token # Null
        /\ last.hdr = last.pre.token
        /\ ~KnownBad(last.pre, now)

\* C5 witness: a bearer header was attached one tick before the token became
\* known bad
C5_Witness ==
    /\ last.op = "prepare"
    /\ last.sent
    /\ last.hdr # Null
    /\ last.pre.tokenExpiry # NoExpiry
    /\ KnownBad(last.pre, now + TickMs)

\* C6: a login request never carries an authorization header, and every other
\* request through the base API issued with a valid token carries that token.
C6_LoginCarriesNoAuthorization ==
    (last.op = "prepare" /\ last.via = "rtk") =>
        /\ last.ep = EpLogin => last.hdr = Null
        /\ (last.ep # EpLogin /\ last.pre.token # Null /\ ~KnownBad(last.pre, now)) =>
               (last.sent /\ last.hdr = last.pre.token)

\* C6 witness: a login request was sent without a header while the store held
\* a valid token
C6_Witness ==
    /\ last.op = "prepare"
    /\ last.ep = EpLogin
    /\ last.sent
    /\ last.hdr = Null
    /\ last.pre.token # Null
    /\ ~KnownBad(last.pre, now)

\* C7: whatever the state it is applied in, logout leaves token, user and
\* expiry null, isAuthenticated false and both storage items removed, and
\* does not throw; so a second logout changes nothing.
C7_LogoutIdempotent ==
    last.ended => (SessionEnded /\ ~last.threw)

\* C7 witness: logout was dispatched in a state a previous logout had left
C7_Witness ==
    /\ last.op = "headerLogout"
    /\ last.ended
    /\ last.pre = LoggedOut
    /\ SessionEnded

\* C8 (as claimed): any number of detections leaves the state of a single
\* logout, none fails, and no navigation to the login path is issued while the
\* location is the login path.
C8_NoNavigationAtLogin ==
    /\ (last.ended /\ last.pre = LoggedOut) => (SessionEnded /\ ~last.threw)
    /\ navAtLogin = {}

\* C8 (amended): any number of detections leaves the state of a single logout,
\* none fails, and the session monitor and the transport issue no navigation
\* to the login path while the location is the login path; only the header's
\* handleLogout, which navigates unconditionally, does.
C8_DetectorsIdempotent ==
    /\ (last.ended /\ last.pre = LoggedOut) => (SessionEnded /\ ~last.threw)
    /\ navAtLogin \subseteq {"header"}

\* C8 witness: a check of the monitor, holding the token its render captured,
\* found it expired after the session had already been ended
C8_Witness ==
    /\ \E i \in DOMAIN last.checks :
         /\ last.checks[i].toast = "expired"
         /\ last.checks[i].storeToken = Null
    /\ SessionEnded

\* C9: when a storage write throws during setCredentials, the store still
\* holds the new token and user, authenticated with the computed expiry, and
\* nothing is thrown to the caller.
C9_StorageFailureNonFatal ==
    (last.op = "setCredentials" /\ last.fail # "none") =>
        /\ auth.token = last.argTok
        /\ auth.user = last.argUser
        /\ auth.isAuthenticated
        /\ auth.tokenExpiry = getTokenExpirationTime(last.argTok)
        /\ ~last.threw

\* C10: with a stored user that cannot be parsed, reconstruction yields a null
\* user without throwing, and isAuthenticated and tokenExpiry are what they
\* would be with a parsable user.
C10_UnparsableUserDegrades ==
    (last.op = "init" /\ storage.user = GarbageItem) =>
        /\ auth.user = Null
        /\ ~last.threw
        /\ \A u \in UserSet :
             LET ref == getInitialAuthState([storage EXCEPT !.user = JSONstringify(u)], now)
             IN /\ ref.user = u
                /\ auth.isAuthenticated = ref.isAuthenticated
                /\ auth.tokenExpiry = ref.tokenExpiry
                /\ auth.token = ref.token

\* C10 witness: the page loaded with a valid token and an unparsable user
C10_Witness ==
    /\ last.op = "init"
    /\ storage.user = GarbageItem
    /\ auth.isAuthenticated
    /\ auth.tokenExpiry # NoExpiry
    /\ auth.user = Null

\* The token is three dot-separated parts whose middle part decodes to a JSON
\* claim set
WellFormed(t) ==
    /\ TokenShape(t).parts = 3
    /\ TokenShape(t).middle = "json"

\* C11: for a token whose claim set carries the expiry E (seconds),
\* isTokenExpired is false at every time before E*1000 - 5000 ms and true from
\* then on; for a token with no expiry claim it is true at all times.
C11_ExpiredFromBufferedInstant ==
    codec.applied =>
        LET shape == TokenShape(codec.token) IN
        /\ (WellFormed(codec.token) /\ shape.hasExp) =>
               (codec.expired <=> codec.time >= shape.exp * 1000 - 5000)
        /\ ~shape.hasExp => codec.expired

\* C11 witness: one millisecond before the buffered instant the token is not
\* expired
C11_Witness ==
    /\ codec.applied
    /\ WellFormed(codec.token)
    /\ TokenShape(codec.token).hasExp
    /\ codec.time = TokenShape(codec.token).exp * 1000 - 5000 - 1
    /\ ~codec.expired

\* C12: for every token that is not three dot-separated parts with a
\* decodable JSON middle part, decodeJWT returns null without throwing and
\* isTokenExpired returns true.
C12_MalformedTokenFailsSafe ==
    (codec.applied /\ ~WellFormed(codec.token)) =>
        /\ codec.payload = NullPayload
        /\ ~codec.threw
        /\ codec.expired

\* C13: between two changes of the session token the monitor shows the
\* expiry warning at most once, whatever checks, re-renders and unmounts and
\* remounts of the layout happen in between (in one document: the count
\* restarts when the page is loaded).
C13_WarningOncePerToken ==
    warnings <= 1

\* C14: a check of the monitor that finds the token expired ends the session,
\* shows the session-expired message and no warning, and assigns the login
\* location only if the location is not the login path; the warning is shown
\* only while the token's remaining time is in (0, 5 minutes].
C14_ExpiredCheckEndsSession ==
    /\ "monitor" \notin navAtLogin
    /\ \A i \in DOMAIN last.checks :
         LET c == last.checks[i]
             remaining == getTokenExpirationTime(c.token) - now
         IN /\ c.toast = "expired" =>
                  /\ SessionEnded
                  /\ c.atPath # LOGIN_PATH => navPending
            /\ c.toast = "warning" =>
                  /\ getTokenExpirationTime(c.token) # NoExpiry
                  /\ remaining > 0
                  /\ remaining <= 5 * 60 * 1000

\* C14 witness: a check found the token expired while the location was the
\* login path, and no navigation was assigned
C14_Witness ==
    /\ \E i \in DOMAIN last.checks :
         /\ last.checks[i].toast = "expired"
         /\ last.checks[i].atPath = LOGIN_PATH
    /\ ~navPending
    /\ SessionEnded

\* C15: the monitor has one interval exactly while its effect has run for a
\* non-null token, never two, and only while the layout is rendered with that
\* token in the store; every periodic check runs with the token of the store,
\* so none fires after the token was cleared or the layout unmounted.
C15_OneTimerWhileTokenPresent ==
    /\ monitor.timers = IF monitor.mounted /\ monitor.token # Null THEN 1 ELSE 0
    /\ monitor.mounted =>
         /\ LayoutRendered(auth, path)
         /\ monitor.token = auth.token
    /\ \A i \in DOMAIN last.checks :
         last.checks[i].kind = "interval" =>
             /\ last.checks[i].storeToken # Null
             /\ last.checks[i].storeToken = last.checks[i].token
             /\ last.checks[i].atPath # LOGIN_PATH

\* C15 witness: a login answered while the layout was mounted with another
\* token: the effect ran again for the new token and one interval is live
C15_Witness ==
    /\ last.op = "setCredentials"
    /\ last.pre.token # Null
    /\ last.pre.token # auth.token
    /\ Len(last.checks) = 1
    /\ last.checks[1].kind = "effect"
    /\ last.checks[1].token = auth.token
    /\ monitor.mounted
    /\ monitor.timers = 1

\* C16: updateUser(user) changes only the user of the store: token,
\* isAuthenticated and tokenExpiry are as they were before the dispatch.
C16_UpdateUserFrame ==
    last.op = "updateUser" =>
        /\ last.post.user = last.argUser
        /\ last.post.token = last.pre.token
        /\ last.post.isAuthenticated = last.pre.isAuthenticated
        /\ last.post.tokenExpiry = last.pre.tokenExpiry

\* C16 witness: the profile fetch gave the user of an authenticated session a
\* phone number
C16_Witness ==
    /\ last.op = "updateUser"
    /\ last.pre.isAuthenticated
    /\ last.pre.user # last.argUser
    /\ last.post.user = "u1p"
    /\ last.post.tokenExpiry # NoExpiry

\* The defined properties of a hook argument, whatever their order
definedProperties(arg) ==
    {arg.fields[i] : i \in {j \in DOMAIN arg.fields : arg.fields[j][2] # Undefined}}

\* C17: subscriptions with the same endpoint and equivalent arguments share
\* one cache entry; while that entry is being fetched exactly one network
\* call is in flight for it, however many components subscribed, and none
\* otherwise; all its subscribers are given the same data.
C17_OneCallPerCacheKey ==
    /\ \A c1, c2 \in Components :
         (/\ cache.sub[c1] # NoQuery
          /\ cache.sub[c2] # NoQuery
          /\ cache.sub[c1].endpoint = cache.sub[c2].endpoint
          /\ definedProperties(cache.sub[c1].arg) = definedProperties(cache.sub[c2].arg))
         => /\ serializeQueryArgs(cache.sub[c1]) = serializeQueryArgs(cache.sub[c2])
            /\ hookData(c1) = hookData(c2)
    /\ \A k \in CacheKeys :
         cache.calls[k] = IF cache.entries[k].status = "pending" THEN 1 ELSE 0

\* Two components subscribed to the license list with the same filters,
\* written in different orders, while the first fetch is in flight
C17_Witness ==
    \E c1, c2 \in Components :
      /\ cache.sub[c1] = [endpoint |-> "getLicenses", arg |-> ListParams]
      /\ cache.sub[c2] = [endpoint |-> "getLicenses", arg |-> ListParamsReordered]
      /\ LET k == serializeQueryArgs(cache.sub[c1])
         IN /\ cache.entries[k].status = "pending"
            /\ cache.entries[k].data = NoData
            /\ cache.calls[k] = 1

\* The entry of key k provided a tag that the settled write invalidated
hitByLastWrite(k) ==
    /\ cache.last.pre[k].status # "uninitialized"
    /\ tagsIntersect(cache.last.tags, cache.last.pre[k].tags)

\* C18: when a write has settled successfully, every entry whose provided
\* tags intersect the write's invalidated tags is being refetched by one
\* network call if it has subscribers and is gone if it has none; every
\* other entry, and its request, is as it was before.
C18_InvalidationByTags ==
    (cache.last.op = "mutationResponse" /\ cache.last.ok)
    => \A k \in CacheKeys :
         IF hitByLastWrite(k)
         THEN IF subscribers(cache.sub, k) = {}
              THEN cache.entries[k] = NoEntry /\ cache.calls[k] = 0
              ELSE /\ cache.entries[k].status = "pending"
                   /\ cache.calls[k] = 1
                   /\ cache.entries[k].data = cache.last.pre[k].data
         ELSE /\ cache.entries[k] = cache.last.pre[k]
              /\ cache.calls[k] = cache.last.preCalls[k]

\* A successful write hit one fulfilled entry with subscribers and one
\* without, or left a fulfilled entry with disjoint tags alone
C18_Witness ==
    /\ cache.last.op = "mutationResponse"
    /\ cache.last.ok
    /\ \E k1, k2 \in CacheKeys :
         /\ hitByLastWrite(k1)
         /\ cache.last.pre[k1].status = "fulfilled"
         /\ subscribers(cache.sub, k1) # {}
         /\ cache.entries[k1].status = "pending"
         /\ cache.last.pre[k2].status = "fulfilled"
         /\ \/ ~hitByLastWrite(k2) /\ cache.entries[k2] = cache.last.pre[k2]
            \/ /\ hitByLastWrite(k2)
               /\ subscribers(cache.sub, k2) = {}
               /\ cache.entries[k2] = NoEntry

StatsKey == serializeQueryArgs([endpoint |-> "getDashboardStats", arg |-> VoidArg])

\* C19: when a write to licenses, payments or activations has settled
\* successfully, a getDashboardStats result that was cached before it is no
\* longer served: its entry is gone or is being refetched.
C19_WritesInvalidateStats ==
    (/\ cache.last.op = "mutationResponse"
     /\ cache.last.ok
     /\ cache.last.write \in Writes
     /\ cache.last.pre[StatsKey].status = "fulfilled")
    => cache.entries[StatsKey].status \in {"uninitialized", "pending"}

\* C20: when a write has failed, every cache entry and every request in
\* flight is as it was before the write settled.
C20_FailedWriteInvalidatesNothing ==
    (cache.last.op = "mutationResponse" /\ ~cache.last.ok)
    => /\ cache.entries = cache.last.pre
       /\ cache.calls = cache.last.preCalls

\* C22: the protected layout is mounted, and its interval alive, only while
\* isAuthenticated is true on a route other than the login route; a step of
\* the guard leaves the location at the login route with nothing of the
\* layout mounted.
C22_ProtectedContentOnlyWhileAuthenticated ==
    /\ monitor.mounted => (auth.isAuthenticated /\ path # LOGIN_PATH)
    /\ monitor.timers > 0 => auth.isAuthenticated
    /\ last.op = "guardRedirect"
         => (path = LOGIN_PATH /\ ~auth.isAuthenticated /\ monitor = NoMonitor)

\* The guard has redirected after a session was ended by an expiry or a 401
\* (whose own navigation to the login page has not committed yet)
C22_Witness ==
    /\ last.op = "guardRedirect"
    /\ navPending
    /\ path = LOGIN_PATH
    /\ ~auth.isAuthenticated
    /\ expirySetAt = NoExpiry
    /\ storage.token = Null

\* A token that cannot be decoded to a claim set with an expiry
Malformed(t) == t # Null /\ NoExpClaim(decodeJWT(t))

\* C23: a malformed token is handled as an expired one wherever the session
\* is decided: the state rebuilt from a stored malformed token is not
\* authenticated, setCredentials with one leaves no authenticated session, a
\* check of the monitor that captured one ends the session, and the
\* transport's pre-check ends the session and attaches no bearer header.
C23_MalformedTreatedAsExpired ==
    /\ (last.op = "init" /\ Malformed(storage.token)) => ~auth.isAuthenticated
    /\ (last.op = "setCredentials" /\ Malformed(last.argTok)) => ~auth.isAuthenticated
    /\ \A i \in DOMAIN last.checks :
         Malformed(last.checks[i].token)
           => (last.checks[i].toast = "expired" /\ ~auth.isAuthenticated)
    /\ (last.op = "prepare" /\ Malformed(last.pre.token) /\ ~isLoginEndpoint(last.ep))
         => (last.hdr = Null /\ last.ended /\ ~auth.isAuthenticated)

\* C24 (as claimed): the header's logout ends logged out at the login route
\* whatever the answer of the logout call, and the session is cleared only
\* after the call has settled: sending the call leaves the session as it was.
C24_ClearedOnlyAfterSettle ==
    /\ last.op = "headerLogout" => (SessionEnded /\ path = LOGIN_PATH /\ ~last.threw)
    /\ (last.op = "prepare" /\ last.ep = EpLogout) => auth = last.pre

\* C24 (amended): the header's logout ends logged out at the login route
\* whatever the answer of the logout call; sending the call leaves the session
\* as it was unless the transport's pre-check found the token expired, in
\* which case the session is already cleared when the call is sent.
C24_HeaderLogoutAlwaysEnds ==
    /\ last.op = "headerLogout" => (SessionEnded /\ path = LOGIN_PATH /\ ~last.threw)
    /\ (last.op = "prepare" /\ last.ep = EpLogout)
         => IF last.ended THEN SessionEnded /\ last.hdr = Null
            ELSE auth = last.pre /\ auth.isAuthenticated /\ inflight["header"] > 0

\* C24 witness: the logout call of an authenticated session was answered with
\* 401, and the handler ended the session at the login route
C24_Witness ==
    /\ last.op = "headerLogout"
    /\ last.status = 401
    /\ last.pre.isAuthenticated
    /\ SessionEnded
    /\ path = LOGIN_PATH

\* C26: a check of the monitor decides "expired" exactly when the transport's
\* pre-request check would for the same token, cached expiry and instant, and
\* exactly when the decode fallback (isTokenExpired of the token) would.
C26_MonitorAgreesWithTransport ==
    \A i \in DOMAIN last.checks :
        LET c == last.checks[i] IN
        c.token # Null =>
            /\ (c.toast = "expired") = headerCheckExpired(c, now)
            /\ (c.toast = "expired") = isTokenExpired(c.token, now)

\* C25: while the monitor is mounted with a token, its interval is armed for
\* no later than CHECK_INTERVAL from now (a check ran when the token was
\* captured and one runs every CHECK_INTERVAL after it), and a session with a
\* cached expiry is not authenticated later than the expiry plus
\* CHECK_INTERVAL.
C25_EndedWithinOneInterval ==
    (monitor.mounted /\ monitor.token # Null) =>
        /\ monitor.timers = 1
        /\ now <= due
        /\ due <= now + CHECK_INTERVAL
        /\ (auth.isAuthenticated /\ auth.tokenExpiry # NoExpiry)
             => now <= DateGetTime(auth.tokenExpiry) + CHECK_INTERVAL

\* C25 witness: the interval ended the session at its first firing after the
\* cached expiry, as late as the phase of the interval allows on this clock
C25_Witness ==
    /\ last.op = "monitorCheck"
    /\ Len(last.checks) = 1
    /\ last.checks[1].kind = "interval"
    /\ last.checks[1].toast = "expired"
    /\ now = DateGetTime(last.checks[1].tokenExpiry) + CHECK_INTERVAL - TickMs
    /\ SessionEnded

\* The entry of the hook that the last step mounted, before and after it
mountedKey == serializeQueryArgs(cache.last.key)

\* C21: an entry with a subscriber is never evicted; once the retention time
\* of an entry without subscribers has elapsed the entry is absent and the
\* next hook that mounts on it starts a request; a hook that mounts on an
\* entry still holding fulfilled data is served that data and starts no
\* request - for every hook, AppLayout's getUserInfo hook included.
C21_RetentionOfUnusedEntries ==
    /\ \A k \in LayoutKeys :
         subscribers(cache.sub, k) # {} => cache.entries[k] # NoEntry
    /\ cache.last.op = "elapsed" => cache.entries[mountedKey] = NoEntry
    /\ (cache.last.op = "subscribe" /\ cache.last.pre[mountedKey] = NoEntry)
         => /\ cache.entries[mountedKey].status = "pending"
            /\ cache.calls[mountedKey] = cache.last.preCalls[mountedKey] + 1
    /\ (cache.last.op = "subscribe" /\ cache.last.pre[mountedKey].status = "fulfilled")
         => /\ cache.entries[mountedKey] = cache.last.pre[mountedKey]
            /\ cache.calls = cache.last.preCalls

\* C30: a logout by the monitor or the transport leaves every cache entry as
\* it was; the header's logout changes at most entries tagged 'Auth', and
\* those only when its logout call succeeded.
C30_LogoutLeavesCacheEntries ==
    /\ cache.last.op = "logout" => cache.entries = cache.last.pre
    /\ cache.last.op = "headerLogout" =>
         \A k \in LayoutKeys :
            cache.entries[k] # cache.last.pre[k]
              => /\ Tag("Auth", NoId) \in cache.last.pre[k].tags
                 /\ cache.last.status = 200

\* C27: whenever the form shows the phone as verified it holds a verification
\* token issued for the phone number in the field; a change of the phone
\* number leaves otpSent, otpCode, phoneVerified and verificationToken reset;
\* and a submit never sends a token issued for another number than the one it
\* sends - whatever requests were in flight while the phone was edited.
C27_TokenIsForCurrentPhone ==
    /\ licenseForm.phoneVerified =>
         /\ licenseForm.verificationToken # Null
         /\ licenseForm.verificationToken = tokenIssuedFor(licenseForm.customerPhone)
    /\ licenseForm.op = "phoneChange" =>
         /\ ~licenseForm.otpSent
         /\ licenseForm.otpCode = ""
         /\ ~licenseForm.phoneVerified
         /\ licenseForm.verificationToken = Null
    /\ (licenseForm.submitted.sent /\ licenseForm.submitted.verificationToken # Null) =>
         licenseForm.submitted.verificationToken
           = tokenIssuedFor(licenseForm.submitted.phone)

\* C28: the license the payment page holds is the license of the key in the
\* key field, and a payment is created only for the license of the key the
\* field held at the submit - whatever the order of key edits, debounce
\* timers and lookup responses.
C28_LicenseIsForCurrentKey ==
    /\ paymentPage.licenseData # Null =>
         paymentPage.licenseData = licenseOf(paymentPage.licenseKey)
    /\ paymentPage.payment.sent =>
         paymentPage.payment.licenseId = licenseOf(paymentPage.payment.licenseKey)

\* C29: a step of the license list that changes a filter of the query
\* arguments (limit, status, free trial, debounced search) leaves the page
\* index 0; at most one debounce timer is pending and it holds the text of
\* the search field, so a timer that fires makes the text of the field the
\* debounced search; and no timer is pending or fires after the unmount.
C29_FilterChangeResetsPage ==
    /\ filtersOf(queryParams(licenseList)) # filtersOf(licenseList.pre)
         => licenseList.page = 0
    /\ licenseList.timers \subseteq {licenseList.searchQuery}
    /\ licenseList.op = "debounce" =>
         /\ licenseList.debouncedSearchQuery = licenseList.searchQuery
         /\ licenseList.mounted
    /\ ~licenseList.mounted => licenseList.timers = {}

\* C29 witness: the timer fired while page 2 was shown and made the text of
\* the field the search, with the page index reset
C29_Witness ==
    /\ licenseList.op = "debounce"
    /\ licenseList.pre.page = 2
    /\ licenseList.pre.search = Undefined
    /\ licenseList.debouncedSearchQuery = "ab"
    /\ licenseList.page = 0
    /\ licenseList.timers = {}

====
